---------------------------- MODULE Spec2Model ----------------------------
(***************************************************************************)
(* A model of the cptbox tracer (dmoj/cptbox/tracer.py): the syscall       *)
(* policy tables and the debugger facade as operators, and TracedPopen's   *)
(* caller, worker ("monitor") and shocker ("watchdog") threads as a state  *)
(* machine.  Python values are modelled by what they are: None is the      *)
(* empty tuple and an optional value v is the one-element tuple <<v>>;     *)
(* a tuple is a tuple; a handler is a record saying whether it is an int   *)
(* (ALLOW, DISALLOW, _CALLBACK) or a callable.                             *)
(***************************************************************************)
EXTENDS Integers, Sequences, FiniteSets, TLC

VARIABLES
    \* ---- policy tables and debugger (TracedPopen.__init__, AdvancedDebugger)
    security,            \* self._security: canonical id -> handler (a dict)
    callbacks,           \* self._callbacks[abi][native number]
    handlers,            \* the native handler table filled by self._handler
    whitelist,           \* last result of _get_seccomp_whitelist (None before)
    dbg_abi,             \* self.debugger.abi at the current stop
    dbg_syscall,         \* self.debugger.syscall at the current stop
    dbg_uargs,           \* self.debugger.uarg0..uarg5 at the current stop
    cb_result,           \* last result of _callback: None or <<[ret, invoked, raised]>>
    last_ptrace_errno,   \* self._last_ptrace_errno
    protection_fault,    \* self.protection_fault
    logged_errno,        \* what _protection_fault last passed to log.error
    verdict,             \* the monitor's decision at the last syscall stop
    op,                  \* the operation that produced the current state
    \* ---- TracedPopen: configuration
    time_limit,          \* self._time
    wall_limit,          \* self._wall_time
    needs_close,         \* stdin/stdout/stderr_needs_close
    child_fd_open,       \* child-side pipe ends the supervisor holds open
    \* ---- TracedPopen: events and results
    spawned_or_errored,  \* self._spawned_or_errored is set
    spawned_sets,        \* number of self._spawned_or_errored.set() calls
    died,                \* self._died is set
    spawn_raised,        \* the exception _spawn raised (None: none)
    spawn_error,         \* self._spawn_error
    is_tle,              \* self._is_tle
    returncode,          \* self.returncode
    execution_time,      \* self.execution_time
    wall_clock_time,     \* self.wall_clock_time
    \* ---- the tracee
    child,               \* "none", "running" or "dead"
    child_status,        \* exit status of a dead tracee
    killer,              \* who ended the tracee
    \* ---- the threads
    pc_caller, pc_worker, pc_shocker,
    caller_exc,          \* the exception the constructor raised in the caller
    wait_result,         \* what the caller saw when wait() returned
    shock_reason,        \* the limit the shocker found exceeded
    was_initialized,     \* self.was_initialized: the tracee reached its execve
    \* ---- signals the shocker sent (history)
    shocker_kills,       \* number of self.kill() calls the shocker made
    kill_signals,        \* number of killpg(SIGKILL) calls the shocker made
    wake_toggle,         \* flips at every wake signal the shocker sends
    \* ---- another thread of the embedding program calling kill()
    pc_user,             \* "idle", "kill_check", "killpg"
    user_kills,          \* number of kill() calls it started
    user_late,           \* its current kill() started with returncode recorded
    user_signals,        \* number of killpg calls it made
    user_exc,            \* the exception a kill() call raised (None: none)
    \* ---- AdvancedDebugger operations
    name_result,         \* last result of get_syscall_name (None before)
    rs_in,               \* arguments and tracee memory of the last readstr
    rs_out,              \* what the last readstr passed down and produced
    \* ---- judge.py: ProgramJudge, its main thread and its write_async thread
    jthread,             \* per thread: position, alive()'s return point,
                         \*   argument and returned value
    write_lock,          \* self.write_lock: "free" or the thread that holds it
    write_queue,         \* self.write_queue
    stopped,             \* self.stopped
    exitcode,            \* self.exitcode
    has_result,          \* self.result is a Result (it is None after __init__)
    result_flag,         \* self.result.result_flag (None while there is no Result)
    process_output,      \* run()'s local process_output (None before read())
    proc,                \* the judged process: "running", "closing", "exited"
    proc_stdout,         \* what the judged process wrote to its stdout
    stdin_closed,        \* self.process.stdin is closed
    test_case,           \* Judge.run: the number of the test case run() is on
    stdout_pos,          \* how much of the process's stdout has been read
    rl_line              \* readline()'s line, then what it returned (None before)

policyVars == <<security, callbacks, handlers, whitelist, dbg_abi, dbg_syscall,
                dbg_uargs, cb_result, logged_errno, verdict, op>>

faultVars == <<last_ptrace_errno, protection_fault>>

configVars == <<time_limit, wall_limit, needs_close>>

threadVars == <<child_fd_open, spawned_or_errored, spawned_sets, died,
                spawn_raised, spawn_error, is_tle, returncode, execution_time,
                wall_clock_time, child, child_status, killer, pc_caller,
                pc_worker, pc_shocker, caller_exc, wait_result, shock_reason>>

sigVars == <<shocker_kills, kill_signals, wake_toggle>>

userVars == <<pc_user, user_kills, user_late, user_signals, user_exc>>

judgeVars == <<jthread, write_lock, write_queue, stopped, exitcode, has_result,
               result_flag,
               process_output, proc, proc_stdout, stdin_closed, test_case,
               stdout_pos, rl_line>>

otherVars == <<name_result, rs_in, rs_out, judgeVars>>

vars == <<policyVars, faultVars, configVars, threadVars, was_initialized,
          sigVars, userVars, otherVars>>

---------------------------------------------------------------------------
(* Python values *)

None == <<>>
Some(x) == <<x>>
IsNone(o) == o = <<>>
Val(o) == o[1]

\* a[i] on a Python list of length len raises IndexError outside -len..len-1
\* and counts a negative i from the end.
PyIndexInRange(i, len) == -len <= i /\ i < len
PyIndex(i, len) == IF i < 0 THEN i + len ELSE i

---------------------------------------------------------------------------
(* ABIs, canonical syscalls and the translation table *)

ABI_X86 == "x86"
ABI_X64 == "x64"
ABI_X32 == "x32"
ABI_ARM == "arm"
ABI_FREEBSD_X64 == "freebsd_x64"
ABI_ARM64 == "arm64"
PTBOX_ABI_INVALID == "invalid"

ValidABIs == {ABI_X86, ABI_X64, ABI_X32, ABI_ARM, ABI_FREEBSD_X64, ABI_ARM64}
AllABIs == ValidABIs \cup {PTBOX_ABI_INVALID}

\* _SYSCALL_INDICIES: the column of translator that belongs to an ABI.
SYSCALL_INDICIES(abi) ==
    CASE abi = ABI_X86 -> 0
      [] abi = ABI_X64 -> 1
      [] abi = ABI_X32 -> 2
      [] abi = ABI_ARM -> 3
      [] abi = ABI_FREEBSD_X64 -> 4
      [] abi = ABI_ARM64 -> 5

\* AdvancedDebugger.address_bits: _address_bits.get(self.abi), None for an ABI
\* the dict does not hold.
address_bits(abi) ==
    CASE abi \in {ABI_X86, ABI_X32, ABI_ARM} -> Some(32)
      [] abi \in {ABI_X64, ABI_ARM64, ABI_FREEBSD_X64} -> Some(64)
      [] OTHER -> None

\* The size of one row of the policy tables (MAX_SYSCALL_NUMBER of _cptbox),
\* scaled down to MaxSyscall.
MaxSyscall == 8
MAX_SYSCALL_NUMBER == MaxSyscall

\* The ABIs the build can trace (SUPPORTED_ABIS of _cptbox) and the ABI of the
\* supervisor itself (NATIVE_ABI of _cptbox): a Linux x86-64 build.
SUPPORTED_ABIS == {ABI_X86, ABI_X64, ABI_X32}
NATIVE_ABI == ABI_X64

\* Canonical syscall ids (dmoj.cptbox.syscalls).
sys_read == 0
sys_open == 1
sys_exit == 2
sys_exit_group == 3
SYSCALL_COUNT == 4
Canonicals == 0 .. (SYSCALL_COUNT - 1)

by_id(c) ==
    CASE c = sys_read -> "read"
      [] c = sys_open -> "open"
      [] c = sys_exit -> "exit"
      [] c = sys_exit_group -> "exit_group"

\* translator[canonical][index]: the native numbers of a canonical syscall
\* under one ABI, a tuple whose entries are numbers or None.  Within one ABI
\* no number belongs to two canonical syscalls.
translator(c, index) ==
    CASE c = sys_read ->
            (CASE index = 0 -> <<Some(3)>>
               [] index = 1 -> <<Some(0)>>
               [] index = 2 -> <<Some(0)>>
               [] index = 3 -> <<Some(3)>>
               [] index = 4 -> <<Some(3)>>
               [] index = 5 -> <<Some(5)>>)
      [] c = sys_open ->
            (CASE index = 0 -> <<Some(5)>>
               [] index = 1 -> <<Some(2), Some(7)>>
               [] index = 2 -> <<Some(2)>>
               [] index = 3 -> <<Some(5)>>
               [] index = 4 -> <<Some(5), Some(7)>>
               [] index = 5 -> <<None>>)
      [] c = sys_exit ->
            (CASE index = 0 -> <<Some(1)>>
               [] index = 1 -> <<Some(4)>>
               [] index = 2 -> <<Some(4)>>
               [] index = 3 -> <<Some(1)>>
               [] index = 4 -> <<Some(1)>>
               [] index = 5 -> <<Some(6)>>)
      [] c = sys_exit_group ->
            (CASE index = 0 -> <<Some(6)>>
               [] index = 1 -> <<Some(5)>>
               [] index = 2 -> <<Some(5)>>
               [] index = 3 -> <<Some(6)>>
               [] index = 4 -> <<>>
               [] index = 5 -> <<Some(7)>>)

\* `syscall in call[index]`: None never equals a number.
InCalls(n, calls) == \E k \in 1 .. Len(calls) : calls[k] = Some(n)

\* The native numbers of canonical c under abi (None entries skipped).
NativeFor(abi, c) ==
    {n \in 0 .. (MAX_SYSCALL_NUMBER - 1) : InCalls(n, translator(c, SYSCALL_INDICIES(abi)))}

---------------------------------------------------------------------------
(* Handlers (dmoj.cptbox.handlers) *)

DISALLOW == [int |-> TRUE, v |-> 0]
ALLOW == [int |-> TRUE, v |-> 1]
CALLBACK == [int |-> TRUE, v |-> 2]

\* Three caller functions: CbAllow always returns True, CbDeny always False,
\* CbRaise reads a string argument that is too long and so raises
\* MaxLengthExceeded.
CbDeny == [int |-> FALSE, v |-> 0]
CbAllow == [int |-> FALSE, v |-> 1]
CbRaise == [int |-> FALSE, v |-> 2]
CallHandler(fn) == fn.v = 1
HandlerRaises(fn) == fn.v = 2

\* class MaxLengthExceeded(ValueError), raised
MaxLengthExceeded == [kind |-> "instance", cls |-> "MaxLengthExceeded", args |-> ""]

PolicyHandlers == {ALLOW, DISALLOW, CbAllow, CbDeny, CbRaise}

\* dict.get(i, default)
DictGet(d, i, default) == IF i \in DOMAIN d THEN d[i] ELSE default

\* Every security map over the canonical syscalls.
SecurityMaps == UNION {[D -> PolicyHandlers] : D \in SUBSET Canonicals}

---------------------------------------------------------------------------
(* TracedPopen.__init__, lines 135-152: the policy tables *)

MaxOf(S) == CHOOSE x \in S : \A y \in S : y <= x

\* The canonical syscalls whose tuple under abi holds n, in loop order.
Owners(abi, n) ==
    {i \in Canonicals : InCalls(n, translator(i, SYSCALL_INDICIES(abi)))}

\* self._callbacks after the loop: a row per ABI, None everywhere but at the
\* native numbers of a supported ABI whose handler is not an int; a later
\* canonical id overwrites an earlier one.
InitCallbacks(sec) ==
    [abi \in ValidABIs |->
        [n \in 0 .. (MAX_SYSCALL_NUMBER - 1) |->
            LET own == {i \in Owners(abi, n) : ~DictGet(sec, i, DISALLOW).int}
            IN  IF abi \in SUPPORTED_ABIS /\ own # {}
                THEN Some(sec[MaxOf(own)])
                ELSE None]]

\* The native table after every self._handler(abi, call, handler) call: the
\* int handler itself, or _CALLBACK for a callable; untouched entries deny.
InitHandlers(sec) ==
    [abi \in ValidABIs |->
        [n \in 0 .. (MAX_SYSCALL_NUMBER - 1) |->
            LET own == Owners(abi, n)
                h == DictGet(sec, MaxOf(own), DISALLOW)
            IN  IF abi \in SUPPORTED_ABIS /\ own # {}
                THEN (IF h.int THEN h ELSE CALLBACK)
                ELSE DISALLOW]]

---------------------------------------------------------------------------
(* TracedPopen._get_seccomp_whitelist *)

\* Mutant: exit and exit_group are not skipped.
GetSeccompWhitelist_NoExitSkip(sec) ==
    [n \in 0 .. (MAX_SYSCALL_NUMBER - 1) |->
        LET own == {i \in Owners(NATIVE_ABI, n) : DictGet(sec, i, DISALLOW).int}
        IN  IF own = {} THEN FALSE
            ELSE DictGet(sec, MaxOf(own), DISALLOW) = ALLOW]

GetSeccompWhitelist(sec) ==
    [n \in 0 .. (MAX_SYSCALL_NUMBER - 1) |->
        LET own == {i \in Owners(NATIVE_ABI, n) :
                        /\ i \notin {sys_exit, sys_exit_group}
                        /\ DictGet(sec, i, DISALLOW).int}
        IN  IF own = {} THEN FALSE
            ELSE DictGet(sec, MaxOf(own), DISALLOW) = ALLOW]

---------------------------------------------------------------------------
(* AdvancedDebugger.get_syscall_name *)

MinOf(S) == CHOOSE x \in S : \A y \in S : x <= y

\* Mutant: the name is looked up in the column of the native ABI.
get_syscall_name_NativeColumn(abi, syscall) ==
    IF abi = PTBOX_ABI_INVALID THEN "failed to read registers"
    ELSE LET hits == {id \in Canonicals :
                        InCalls(syscall, translator(id, SYSCALL_INDICIES(NATIVE_ABI)))}
         IN  IF hits = {} THEN "unknown" ELSE by_id(MinOf(hits))

get_syscall_name(abi, syscall) ==
    IF abi = PTBOX_ABI_INVALID THEN "failed to read registers"
    ELSE LET hits == {id \in Canonicals :
                        InCalls(syscall, translator(id, SYSCALL_INDICIES(abi)))}
         IN  IF hits = {} THEN "unknown" ELSE by_id(MinOf(hits))

---------------------------------------------------------------------------
(* TracedPopen._callback *)

ARM_PRIVATE_LOW == 983040     \* 0xF0000
ARM_PRIVATE_HIGH == 983046    \* 0xF0006

\* The result is the returned bool, the caller function that was invoked
\* (None when none was) and the exception that left _callback (None when
\* none did; ret is then no value and reads FALSE).
Callback(cbs, abi, syscall) ==
    IF abi = PTBOX_ABI_INVALID
    THEN [ret |-> FALSE, invoked |-> None, raised |-> None]
    ELSE IF ~PyIndexInRange(syscall, MAX_SYSCALL_NUMBER)
    THEN [ret |-> IF abi = ABI_ARM
                  THEN ARM_PRIVATE_LOW < syscall /\ syscall < ARM_PRIVATE_HIGH
                  ELSE FALSE,
          invoked |-> None, raised |-> None]
    ELSE LET callback == cbs[abi][PyIndex(syscall, MAX_SYSCALL_NUMBER)]
         IN  IF ~IsNone(callback)
             THEN IF HandlerRaises(Val(callback))
                  THEN [ret |-> FALSE, invoked |-> callback,
                        raised |-> Some(MaxLengthExceeded)]
                  ELSE [ret |-> CallHandler(Val(callback)), invoked |-> callback,
                        raised |-> None]
             ELSE [ret |-> FALSE, invoked |-> None, raised |-> None]

---------------------------------------------------------------------------
(* TracedPopen._protection_fault and _ptrace_error *)

ZeroArgs == <<0, 0, 0, 0, 0, 0>>

\* The tuple stored in self.protection_fault.
ProtectionFault(abi, syscall, uargs, lasterr, is_update) ==
    IF syscall = -1
    THEN <<-1, "ptrace fail", ZeroArgs, None>>
    ELSE <<syscall, get_syscall_name(abi, syscall), uargs,
           IF is_update THEN lasterr ELSE None>>

\* What the syscall == -1 branch hands to log.error (None: 'unknown error').
LoggedErrno(syscall, lasterr, before) ==
    IF syscall = -1 THEN lasterr ELSE before

---------------------------------------------------------------------------
(* The monitor's dispatch at a syscall-entry stop (native code of _cptbox):
   an in-range number is decided by the handler table, a _CALLBACK entry and
   every out-of-range number by TracedPopen._callback; an exception that
   leaves _callback is a denial. *)

OnSyscall(hs, cbs, abi, n) ==
    IF abi # PTBOX_ABI_INVALID /\ 0 <= n /\ n < MAX_SYSCALL_NUMBER /\ hs[abi][n] # CALLBACK
    THEN [ret |-> hs[abi][n] = ALLOW, invoked |-> None, raised |-> None]
    ELSE LET c == Callback(cbs, abi, n)
         IN  [ret |-> IsNone(c.raised) /\ c.ret, invoked |-> c.invoked,
              raised |-> c.raised]

---------------------------------------------------------------------------
(* Inputs *)

\* errno values reported through _ptrace_error (EPERM, ESRCH).
Errnos == {1, 3}

\* Syscall numbers handed to _callback: every index of a row, the numbers
\* around both ends of the row, and the numbers around the ARM-private window.
CallbackInputs ==
    (-(MAX_SYSCALL_NUMBER + 1) .. MAX_SYSCALL_NUMBER)
        \cup {ARM_PRIVATE_LOW, ARM_PRIVATE_LOW + 1, ARM_PRIVATE_LOW + 2,
              ARM_PRIVATE_HIGH - 1, ARM_PRIVATE_HIGH}

\* Syscall numbers the tracee is stopped at: -1 is a failed register read.
StopInputs == (-1 .. (MAX_SYSCALL_NUMBER - 1)) \cup {ARM_PRIVATE_LOW + 2}
StopABIs == SUPPORTED_ABIS \cup {ABI_ARM, PTBOX_ABI_INVALID}

\* The registers of the stopped tracee.
StopArgs == <<11, 12, 13, 14, 15, 16>>

\* State of the threads of a TracedPopen that is not running (the policy
\* operations are applied to a constructed object).
\* No signal sent yet.
SignalsIdle == shocker_kills = 0 /\ kill_signals = 0 /\ wake_toggle = FALSE

\* No kill() called from outside yet.
UserIdle ==
    /\ pc_user = "idle" /\ user_kills = 0 /\ user_late = FALSE
    /\ user_signals = 0 /\ user_exc = None

\* No debugger operation applied yet.
DebuggerIdle == name_result = None /\ rs_in = None /\ rs_out = None

\* judge.py, ProgramJudge.__init__ and Result.__init__: the process is
\* started, nothing is queued, no thread is in run() or write_async.
\* Judge.run feeds MaxCases test cases to one ProgramJudge; each run() starts
\* a write_async thread of its own.
MaxCases == 2
Writer(n) == "writer" \o ToString(n)
Writers == {Writer(n) : n \in 1 .. MaxCases}
JudgeThreads == {"main"} \cup Writers
JudgeIdle ==
    /\ jthread = [t \in JudgeThreads |->
                    [pc |-> IF t = "main" THEN "run" ELSE "off",
                     ret |-> "", arg |-> None, val |-> FALSE, polled |-> None]]
    /\ write_lock = "free"
    /\ write_queue = <<>>
    /\ stopped = FALSE
    /\ exitcode = None
    /\ has_result = FALSE /\ result_flag = None
    /\ process_output = None
    /\ proc = "running" /\ proc_stdout = <<>>
    /\ stdin_closed = FALSE
    /\ test_case = 1
    /\ stdout_pos = 0 /\ rl_line = None

ThreadsIdle ==
    /\ time_limit = 0 /\ wall_limit = 0
    /\ needs_close = [f \in {"stdin", "stdout", "stderr"} |-> FALSE]
    /\ child_fd_open = [f \in {"stdin", "stdout", "stderr"} |-> FALSE]
    /\ spawned_or_errored = FALSE /\ spawned_sets = 0 /\ died = FALSE
    /\ spawn_raised = None /\ spawn_error = None
    /\ is_tle = FALSE /\ returncode = None
    /\ execution_time = 0 /\ wall_clock_time = 0
    /\ child = "none" /\ child_status = None /\ killer = "nobody"
    /\ pc_caller = "idle" /\ pc_worker = "idle" /\ pc_shocker = "idle"
    /\ caller_exc = None /\ wait_result = None /\ shock_reason = "none"
    /\ was_initialized = FALSE
    /\ SignalsIdle /\ UserIdle /\ DebuggerIdle /\ JudgeIdle

---------------------------------------------------------------------------
(* The policy operations, applied to a constructed TracedPopen *)

InitPolicy ==
    /\ security \in SecurityMaps
    /\ callbacks = InitCallbacks(security)
    /\ handlers = InitHandlers(security)
    /\ whitelist = None
    /\ dbg_abi = NATIVE_ABI /\ dbg_syscall = 0 /\ dbg_uargs = StopArgs
    /\ cb_result = None /\ verdict = None
    /\ last_ptrace_errno = None /\ protection_fault = None
    /\ logged_errno = None
    /\ op = "init"
    /\ ThreadsIdle

\* _ptrace_error(error)
PtraceErrorOp ==
    /\ op = "init"
    /\ \E e \in Errnos : last_ptrace_errno' = Some(e)
    /\ op' = "ptrace_error"
    /\ UNCHANGED <<security, callbacks, handlers, whitelist, dbg_abi, dbg_syscall,
                   dbg_uargs, cb_result, logged_errno, verdict, protection_fault,
                   configVars, otherVars, sigVars, userVars,
                   was_initialized, threadVars>>

\* _get_seccomp_whitelist()
WhitelistOp ==
    /\ op = "init"
    /\ whitelist' = Some(GetSeccompWhitelist(security))
    /\ op' = "whitelist"
    /\ UNCHANGED <<security, callbacks, handlers, dbg_abi, dbg_syscall, dbg_uargs,
                   cb_result, logged_errno, verdict, faultVars, configVars, otherVars, sigVars, userVars,
                   was_initialized, threadVars>>

\* _callback(syscall) with the debugger reporting abi
CallbackOp ==
    /\ op = "init"
    /\ \E abi \in AllABIs, n \in CallbackInputs :
          /\ dbg_abi' = abi
          /\ dbg_syscall' = n
          /\ cb_result' = Some(Callback(callbacks, abi, n))
    /\ op' = "callback"
    /\ UNCHANGED <<security, callbacks, handlers, whitelist, dbg_uargs, logged_errno,
                   verdict, faultVars, configVars, otherVars, sigVars, userVars,
                   was_initialized, threadVars>>

\* A syscall stop of the monitor: a failed read (-1) is a protection fault at
\* once, any other number is dispatched and faults when denied.
SyscallStopOp ==
    /\ op \in {"init", "ptrace_error"}
    /\ \E abi \in StopABIs, n \in StopInputs, is_update \in BOOLEAN :
          LET d == IF n = -1 THEN [ret |-> FALSE, invoked |-> None, raised |-> None]
                   ELSE OnSyscall(handlers, callbacks, abi, n)
          IN  /\ dbg_abi' = abi
              /\ dbg_syscall' = n
              /\ verdict' = Some(d.ret)
              /\ cb_result' = Some(d)
              /\ protection_fault' =
                    IF d.ret THEN protection_fault
                    ELSE ProtectionFault(abi, n, dbg_uargs, last_ptrace_errno, is_update)
              /\ logged_errno' =
                    IF d.ret THEN logged_errno
                    ELSE LoggedErrno(n, last_ptrace_errno, logged_errno)
    /\ op' = "stop"
    /\ UNCHANGED <<security, callbacks, handlers, whitelist, dbg_uargs,
                   last_ptrace_errno, configVars, otherVars, sigVars, userVars,
                   was_initialized, threadVars>>

NextPolicy == PtraceErrorOp \/ WhitelistOp \/ CallbackOp \/ SyscallStopOp

SpecPolicy == InitPolicy /\ [][NextPolicy]_vars

---------------------------------------------------------------------------
(* AdvancedDebugger: get_syscall_name and readstr, applied to a debugger *)

\* A 64-bit register value is four 16-bit limbs, the most significant first.
RECURSIVE BitAnd(_, _)
BitAnd(a, b) ==
    IF a = 0 \/ b = 0 THEN 0
    ELSE (a % 2) * (b % 2) + 2 * BitAnd(a \div 2, b \div 2)

And64(a, m) == [i \in 1 .. 4 |-> BitAnd(a[i], m[i])]

\* 0xFFFFFFFF
MASK32 == <<0, 0, 65535, 65535>>

\* The string lengths and the max_size arguments of the readstr calls.
MaxStr == 3
MaxSize == 2

\* The bytes of a string argument: two letters; 0 is the NUL.
Letters == {65, 66}

RECURSIVE StringsOf(_)
StringsOf(n) ==
    IF n = 0 THEN {<<>>}
    ELSE LET shorter == StringsOf(n - 1)
         IN  shorter \cup {Append(t, c) : t \in {u \in shorter : Len(u) = n - 1},
                                          c \in Letters}

\* Tracee memory at an address: unreadable, or a NUL-terminated string.
Memories ==
    {[readable |-> FALSE, bytes |-> <<0>>]}
        \cup {[readable |-> TRUE, bytes |-> Append(t, 0)] : t \in StringsOf(MaxStr)}

\* Register values: below 2^32, at 2^32, above it, and all bits set.
Addresses ==
    {<<0, 0, 0, 4096>>, <<0, 0, 65535, 65535>>, <<0, 1, 0, 0>>,
     <<0, 1, 32768, 4096>>, <<65535, 65535, 65535, 65535>>}

\* The index of the first NUL of bytes (Len + 1 when there is none).
FirstNul(bytes) ==
    LET nuls == {i \in 1 .. Len(bytes) : bytes[i] = 0}
    IN  IF nuls = {} THEN Len(bytes) + 1 ELSE MinOf(nuls)

\* Debugger.readstr(address, size) of _cptbox: None when the memory cannot be
\* read, else the bytes before the first NUL, at most size of them.
NativeReadstr(mem, size) ==
    IF ~mem.readable THEN None
    ELSE LET k == FirstNul(mem.bytes) - 1
         IN  Some(SubSeq(mem.bytes, 1, IF k < size THEN k ELSE size))

\* utf8text on ASCII bytes: the text of the bytes, a character per byte.
Chr(b) == IF b = 65 THEN "A" ELSE IF b = 66 THEN "B" ELSE "?"
utf8text(read) == [i \in 1 .. Len(read) |-> Chr(read[i])]

\* AdvancedDebugger.readstr(address, max_size) with mem the tracee memory at
\* the address handed down: that address and size, and the outcome.
readstr_NoExtraByte(abi, address, max_size, mem) ==
    LET addr == IF address_bits(abi) = Some(32) THEN And64(address, MASK32)
                ELSE address
        read == NativeReadstr(mem, max_size)
    IN  [address |-> addr, size |-> max_size,
         result |-> IF IsNone(read) THEN [kind |-> "none", value |-> <<>>]
                    ELSE IF Len(Val(read)) > max_size
                    THEN [kind |-> "MaxLengthExceeded", value |-> <<>>]
                    ELSE [kind |-> "str", value |-> utf8text(Val(read))]]

readstr_NoMask(abi, address, max_size, mem) ==
    LET addr == address
        read == NativeReadstr(mem, max_size + 1)
    IN  [address |-> addr, size |-> max_size + 1,
         result |-> IF IsNone(read) THEN [kind |-> "none", value |-> <<>>]
                    ELSE IF Len(Val(read)) > max_size
                    THEN [kind |-> "MaxLengthExceeded", value |-> <<>>]
                    ELSE [kind |-> "str", value |-> utf8text(Val(read))]]

readstr(abi, address, max_size, mem) ==
    LET addr == IF address_bits(abi) = Some(32) THEN And64(address, MASK32)
                ELSE address
        read == NativeReadstr(mem, max_size + 1)
    IN  [address |-> addr, size |-> max_size + 1,
         result |-> IF IsNone(read) THEN [kind |-> "none", value |-> <<>>]
                    ELSE IF Len(Val(read)) > max_size
                    THEN [kind |-> "MaxLengthExceeded", value |-> <<>>]
                    ELSE [kind |-> "str", value |-> utf8text(Val(read))]]

\* Numbers handed to get_syscall_name: every index of a row and both ends.
NameInputs == -1 .. MAX_SYSCALL_NUMBER

\* A debugger of a TracedPopen with an empty security map.
InitDebugger ==
    /\ security = [c \in {} |-> ALLOW]
    /\ callbacks = InitCallbacks(security)
    /\ handlers = InitHandlers(security)
    /\ whitelist = None
    /\ dbg_abi = NATIVE_ABI /\ dbg_syscall = 0 /\ dbg_uargs = StopArgs
    /\ cb_result = None /\ verdict = None
    /\ last_ptrace_errno = None /\ protection_fault = None
    /\ logged_errno = None
    /\ op = "init"
    /\ ThreadsIdle

\* get_syscall_name(syscall) with the debugger reporting abi
GetSyscallNameOp ==
    /\ op = "init"
    /\ \E abi \in AllABIs, n \in NameInputs :
          /\ dbg_abi' = abi
          /\ dbg_syscall' = n
          /\ name_result' = Some(get_syscall_name(abi, n))
    /\ op' = "name"
    /\ UNCHANGED <<security, callbacks, handlers, whitelist, dbg_uargs, cb_result,
                   logged_errno, verdict, faultVars, configVars, sigVars, userVars,
                   was_initialized, threadVars, rs_in, rs_out, judgeVars>>

\* readstr(address, max_size) with the debugger reporting abi
ReadstrOp ==
    /\ op = "init"
    /\ \E abi \in AllABIs, address \in Addresses, max_size \in 0 .. MaxSize,
          mem \in Memories :
          /\ dbg_abi' = abi
          /\ rs_in' = Some([address |-> address, max_size |-> max_size, mem |-> mem])
          /\ rs_out' = Some(readstr(abi, address, max_size, mem))
    /\ op' = "readstr"
    /\ UNCHANGED <<security, callbacks, handlers, whitelist, dbg_syscall, dbg_uargs,
                   cb_result, logged_errno, verdict, faultVars, configVars, sigVars,
                   userVars, was_initialized, threadVars, name_result, judgeVars>>

NextDebugger == GetSyscallNameOp \/ ReadstrOp

SpecDebugger == InitDebugger /\ [][NextDebugger]_vars

---------------------------------------------------------------------------
(* TracedPopen: construction and the three threads *)

\* Largest value of the tracee's clocks (seconds).
MaxClock == 6

Streams == {"stdin", "stdout", "stderr"}

\* What _spawn can raise: an exception object has a class and arguments.  A
\* class object is a value too (kind "class", no arguments).
SpawnExceptions ==
    {[kind |-> "instance", cls |-> "OSError", args |-> "ENOMEM"],
     [kind |-> "instance", cls |-> "RuntimeError", args |-> "failed to spawn"]}

\* sys.exc_info()[0]: the class of the exception being handled.
ExcInfo0(e) == [kind |-> "class", cls |-> e.cls, args |-> ""]

\* `raise x`: an instance is raised as it is, a class C is raised as C(), a
\* new instance without arguments.
Raise(x) ==
    IF x.kind = "class" THEN [kind |-> "instance", cls |-> x.cls, args |-> ""]
    ELSE x

\* The signal number of SIGKILL, as a return code.
KILLED == -9

\* Exit codes the tracee chooses.
ExitCodes == {0, 1}

\* self._wall_time = time * 3 if wall_time is None else wall_time
WallTime(time, wall_time) == IF IsNone(wall_time) THEN time * 3 ELSE Val(wall_time)

\* self._cpu_time = time + 5 if time else 0: the tracee's RLIMIT_CPU (0: none)
CPU_GRACE == 5
CpuTime(time) == IF time # 0 THEN time + CPU_GRACE ELSE 0

\* The policy of the traced runs: read allowed, open decided by a callback
\* that allows, exit decided by a callback that raises, exit_group allowed.
RunSecurity ==
    (sys_read :> ALLOW) @@ (sys_open :> CbAllow) @@ (sys_exit :> CbRaise)
        @@ (sys_exit_group :> ALLOW)

\* The syscalls the tracee of the traced runs attempts (native ABI): read,
\* open, exit and a number of no canonical syscall.
RunSyscalls == {0, 2, 4, 6}

\* The time argument of the constructor: a negative limit, none, a limit.
Times == {-1, 0, 1}

\* __init__: the state when the constructor blocks on _spawned_or_errored,
\* the shocker (if time) and the worker started.
Init ==
    /\ security = RunSecurity
    /\ callbacks = InitCallbacks(security)
    /\ handlers = InitHandlers(security)
    /\ whitelist = None
    /\ dbg_abi = NATIVE_ABI /\ dbg_syscall = 0 /\ dbg_uargs = StopArgs
    /\ cb_result = None /\ verdict = None
    /\ last_ptrace_errno = None /\ protection_fault = None
    /\ logged_errno = None
    /\ op = "run"
    /\ \E time \in Times, wall_time \in {None, Some(2)} :
          /\ time_limit = time
          /\ wall_limit = WallTime(time, wall_time)
    /\ needs_close \in {[stdin |-> TRUE, stdout |-> TRUE, stderr |-> FALSE],
                        [stdin |-> FALSE, stdout |-> TRUE, stderr |-> TRUE]}
    /\ child_fd_open = needs_close
    /\ spawned_or_errored = FALSE /\ spawned_sets = 0 /\ died = FALSE
    /\ spawn_raised = None /\ spawn_error = None
    /\ is_tle = FALSE /\ returncode = None
    /\ execution_time = 0 /\ wall_clock_time = 0
    /\ child = "none" /\ child_status = None /\ killer = "nobody"
    /\ pc_caller = "init_wait"
    /\ pc_worker = "spawn"
    /\ pc_shocker = IF time_limit # 0 THEN "wait_spawned" ELSE "off"
    /\ caller_exc = None /\ wait_result = None /\ shock_reason = "none"
    /\ was_initialized = FALSE
    /\ SignalsIdle /\ UserIdle /\ DebuggerIdle /\ JudgeIdle

---------------------------------------------------------------------------
(* The worker thread: _run_process *)

\* self._spawn(...) returns: the tracee runs.
WorkerSpawnOk ==
    /\ pc_worker = "spawn"
    /\ child' = "running"
    /\ pc_worker' = "fin_stdin"
    /\ UNCHANGED <<policyVars, faultVars, configVars, otherVars, sigVars, userVars,
                   was_initialized, child_fd_open,
                   spawned_or_errored, spawned_sets, died, spawn_raised, spawn_error,
                   is_tle, returncode, execution_time, wall_clock_time, child_status,
                   killer, pc_caller, pc_shocker, caller_exc, wait_result, shock_reason>>

\* self._spawn(...) raises: control enters the except clause.
WorkerSpawnRaise ==
    /\ pc_worker = "spawn"
    /\ \E e \in SpawnExceptions : spawn_raised' = Some(e)
    /\ pc_worker' = "exc_store"
    /\ UNCHANGED <<policyVars, faultVars, configVars, otherVars, sigVars, userVars,
                   was_initialized, child_fd_open,
                   spawned_or_errored, spawned_sets, died, spawn_error,
                   is_tle, returncode, execution_time, wall_clock_time, child,
                   child_status, killer, pc_caller, pc_shocker, caller_exc,
                   wait_result, shock_reason>>

\* self._spawn_error = sys.exc_info()[0]
WorkerStoreError ==
    /\ pc_worker = "exc_store"
    /\ spawn_error' = Some(ExcInfo0(Val(spawn_raised)))
    /\ pc_worker' = "exc_died"
    /\ UNCHANGED <<policyVars, faultVars, configVars, otherVars, sigVars, userVars,
                   was_initialized, child_fd_open,
                   spawned_or_errored, spawned_sets, died, spawn_raised,
                   is_tle, returncode, execution_time, wall_clock_time, child,
                   child_status, killer, pc_caller, pc_shocker, caller_exc,
                   wait_result, shock_reason>>

\* self._died.set() of the except clause; `return` then runs the finally.
WorkerErrorDied ==
    /\ pc_worker = "exc_died"
    /\ died' = TRUE
    /\ pc_worker' = "fin_stdin"
    /\ UNCHANGED <<policyVars, faultVars, configVars, otherVars, sigVars, userVars,
                   was_initialized, child_fd_open,
                   spawned_or_errored, spawned_sets, spawn_raised, spawn_error,
                   is_tle, returncode, execution_time, wall_clock_time, child,
                   child_status, killer, pc_caller, pc_shocker, caller_exc,
                   wait_result, shock_reason>>

\* finally: if self.<f>_needs_close: os.close(self._child_<f>)
CloseIfNeeded(f, from, to) ==
    /\ pc_worker = from
    /\ child_fd_open' = IF needs_close[f] THEN [child_fd_open EXCEPT ![f] = FALSE]
                        ELSE child_fd_open
    /\ pc_worker' = to
    /\ UNCHANGED <<policyVars, faultVars, configVars, otherVars, sigVars, userVars,
                   was_initialized,
                   spawned_or_errored, spawned_sets, died, spawn_raised, spawn_error,
                   is_tle, returncode, execution_time, wall_clock_time, child,
                   child_status, killer, pc_caller, pc_shocker, caller_exc,
                   wait_result, shock_reason>>

WorkerCloseStdin == CloseIfNeeded("stdin", "fin_stdin", "fin_stdout")
WorkerCloseStdout == CloseIfNeeded("stdout", "fin_stdout", "fin_stderr")
WorkerCloseStderr == CloseIfNeeded("stderr", "fin_stderr", "fin_set")

\* finally: self._spawned_or_errored.set(); the except clause's return ends
\* the thread, otherwise the worker goes on.
WorkerSetSpawned ==
    /\ pc_worker = "fin_set"
    /\ spawned_or_errored' = TRUE
    /\ spawned_sets' = spawned_sets + 1
    /\ pc_worker' = IF IsNone(spawn_raised) THEN "oom" ELSE "done"
    /\ UNCHANGED <<policyVars, faultVars, configVars, otherVars, sigVars, userVars,
                   was_initialized, child_fd_open,
                   died, spawn_raised, spawn_error,
                   is_tle, returncode, execution_time, wall_clock_time, child,
                   child_status, killer, pc_caller, pc_shocker, caller_exc,
                   wait_result, shock_reason>>

\* oom_score_adj(OOM_SCORE_ADJ_MAX, self.pid), its exceptions printed.
WorkerOomAdjust ==
    /\ pc_worker = "oom"
    /\ pc_worker' = "monitor"
    /\ UNCHANGED <<policyVars, faultVars, configVars, otherVars, sigVars, userVars,
                   was_initialized, child_fd_open,
                   spawned_or_errored, spawned_sets, died, spawn_raised, spawn_error,
                   is_tle, returncode, execution_time, wall_clock_time, child,
                   child_status, killer, pc_caller, pc_shocker, caller_exc,
                   wait_result, shock_reason>>

\* self._monitor(): a syscall stop.  An allowed call continues the tracee; a
\* denied one records the protection fault and the tracee is killed.
\* cb_result keeps the dispatch of the last stop that was denied or at which
\* a raising caller function ran.
MonitorSyscallStop ==
    /\ pc_worker = "monitor"
    /\ child = "running"
    /\ was_initialized
    /\ \E n \in RunSyscalls :
          LET d == OnSyscall(handlers, callbacks, NATIVE_ABI, n)
              raiser == ~IsNone(d.invoked) /\ HandlerRaises(Val(d.invoked))
          IN  /\ ~d.ret \/ raiser
              /\ cb_result' = Some(d)
              /\ IF d.ret
                 THEN UNCHANGED <<protection_fault, child, child_status, killer>>
                 ELSE /\ protection_fault' =
                            ProtectionFault(NATIVE_ABI, n, dbg_uargs,
                                            last_ptrace_errno, FALSE)
                      /\ child' = "dead"
                      /\ child_status' = Some(KILLED)
                      /\ killer' = "monitor"
    /\ UNCHANGED <<security, callbacks, handlers, whitelist, dbg_abi, dbg_syscall,
                   dbg_uargs, logged_errno, verdict, op, last_ptrace_errno,
                   configVars, otherVars, sigVars, userVars,
                   was_initialized, child_fd_open,
                   spawned_or_errored, spawned_sets, died, spawn_raised, spawn_error,
                   is_tle, returncode, execution_time, wall_clock_time,
                   pc_caller, pc_worker, pc_shocker, caller_exc,
                   wait_result, shock_reason>>

\* self._monitor(): the registers cannot be read: _ptrace_error(errno), then
\* _protection_fault(-1), and the tracee is killed.
MonitorPtraceFail ==
    /\ pc_worker = "monitor"
    /\ child = "running"
    /\ \E e \in Errnos :
          /\ last_ptrace_errno' = Some(e)
          /\ protection_fault' = ProtectionFault(NATIVE_ABI, -1, dbg_uargs, Some(e), FALSE)
    /\ child' = "dead"
    /\ child_status' = Some(KILLED)
    /\ killer' = "monitor"
    /\ UNCHANGED <<policyVars, configVars, otherVars, sigVars, userVars,
                   was_initialized, child_fd_open,
                   spawned_or_errored, spawned_sets, died, spawn_raised, spawn_error,
                   is_tle, returncode, execution_time, wall_clock_time,
                   pc_caller, pc_worker, pc_shocker, caller_exc,
                   wait_result, shock_reason>>

\* self._monitor(): the tracee used up its RLIMIT_CPU and got SIGXCPU: the
\* monitor calls _cpu_time_exceeded() (self._is_tle = True) and kills it.
MonitorCpuTimeExceeded ==
    /\ pc_worker = "monitor"
    /\ child = "running"
    /\ was_initialized
    /\ CpuTime(time_limit) # 0
    /\ execution_time >= CpuTime(time_limit)
    /\ is_tle' = TRUE
    /\ child' = "dead"
    /\ child_status' = Some(KILLED)
    /\ killer' = "monitor"
    /\ UNCHANGED <<policyVars, faultVars, configVars, otherVars, sigVars, userVars,
                   was_initialized, child_fd_open,
                   spawned_or_errored, spawned_sets, died, spawn_raised, spawn_error,
                   returncode, execution_time, wall_clock_time,
                   pc_caller, pc_worker, pc_shocker, caller_exc,
                   wait_result, shock_reason>>

\* self._monitor() returns: the tracee is dead and its status is recorded.
MonitorExit ==
    /\ pc_worker = "monitor"
    /\ child = "dead"
    /\ returncode' = child_status
    /\ pc_worker' = "tle_check"
    /\ UNCHANGED <<policyVars, faultVars, configVars, otherVars, sigVars, userVars,
                   was_initialized, child_fd_open,
                   spawned_or_errored, spawned_sets, died, spawn_raised, spawn_error,
                   is_tle, execution_time, wall_clock_time, child,
                   child_status, killer, pc_caller, pc_shocker, caller_exc,
                   wait_result, shock_reason>>

\* if self._time and self.execution_time > self._time: self._is_tle = True
WorkerCheckTle_Skips ==
    /\ pc_worker = "tle_check"
    /\ is_tle' = is_tle
    /\ pc_worker' = "set_died"
    /\ UNCHANGED <<policyVars, faultVars, configVars, otherVars, sigVars, userVars,
                   was_initialized, child_fd_open,
                   spawned_or_errored, spawned_sets, died, spawn_raised, spawn_error,
                   returncode, execution_time, wall_clock_time, child,
                   child_status, killer, pc_caller, pc_shocker, caller_exc,
                   wait_result, shock_reason>>

WorkerCheckTle ==
    /\ pc_worker = "tle_check"
    /\ is_tle' = IF time_limit # 0 /\ execution_time > time_limit THEN TRUE ELSE is_tle
    /\ pc_worker' = "set_died"
    /\ UNCHANGED <<policyVars, faultVars, configVars, otherVars, sigVars, userVars,
                   was_initialized, child_fd_open,
                   spawned_or_errored, spawned_sets, died, spawn_raised, spawn_error,
                   returncode, execution_time, wall_clock_time, child,
                   child_status, killer, pc_caller, pc_shocker, caller_exc,
                   wait_result, shock_reason>>

\* Mutant: the worker ends without setting died.
WorkerSetDied_Forgets ==
    /\ pc_worker = "set_died"
    /\ pc_worker' = "done"
    /\ UNCHANGED <<policyVars, faultVars, configVars, otherVars, sigVars, userVars,
                   was_initialized, child_fd_open,
                   spawned_or_errored, spawned_sets, died, spawn_raised, spawn_error,
                   is_tle, returncode, execution_time, wall_clock_time, child,
                   child_status, killer, pc_caller, pc_shocker, caller_exc,
                   wait_result, shock_reason>>

\* self._died.set()
WorkerSetDied ==
    /\ pc_worker = "set_died"
    /\ died' = TRUE
    /\ pc_worker' = "done"
    /\ UNCHANGED <<policyVars, faultVars, configVars, otherVars, sigVars, userVars,
                   was_initialized, child_fd_open,
                   spawned_or_errored, spawned_sets, spawn_raised, spawn_error,
                   is_tle, returncode, execution_time, wall_clock_time, child,
                   child_status, killer, pc_caller, pc_shocker, caller_exc,
                   wait_result, shock_reason>>

WorkerNext ==
    \/ WorkerSpawnOk \/ WorkerSpawnRaise \/ WorkerStoreError \/ WorkerErrorDied
    \/ WorkerCloseStdin \/ WorkerCloseStdout \/ WorkerCloseStderr
    \/ WorkerSetSpawned \/ WorkerOomAdjust
    \/ MonitorSyscallStop \/ MonitorPtraceFail \/ MonitorCpuTimeExceeded
    \/ MonitorExit
    \/ WorkerCheckTle \/ WorkerSetDied

---------------------------------------------------------------------------
(* The caller thread: the end of __init__, then wait() *)

\* self._spawned_or_errored.wait() returns; if self._spawn_error: raise it.
CallerConstructed ==
    /\ pc_caller = "init_wait"
    /\ spawned_or_errored
    /\ IF ~IsNone(spawn_error)
       THEN /\ caller_exc' = Some(Raise(Val(spawn_error)))
            /\ pc_caller' = "raised"
       ELSE /\ caller_exc' = caller_exc
            /\ pc_caller' = "constructed"
    /\ UNCHANGED <<policyVars, faultVars, configVars, otherVars, sigVars, userVars,
                   was_initialized, child_fd_open,
                   spawned_or_errored, spawned_sets, died, spawn_raised, spawn_error,
                   is_tle, returncode, execution_time, wall_clock_time, child,
                   child_status, killer, pc_worker, pc_shocker,
                   wait_result, shock_reason>>

\* The exit statuses of a tracee that failed before its execve.
PTBOX_SPAWN_FAIL_NO_NEW_PRIVS == -202
PTBOX_SPAWN_FAIL_SECCOMP == -203
PTBOX_SPAWN_FAIL_TRACEME == -204
PTBOX_SPAWN_FAIL_EXECVE == -205
SpawnFailSentinels ==
    {PTBOX_SPAWN_FAIL_NO_NEW_PRIVS, PTBOX_SPAWN_FAIL_SECCOMP,
     PTBOX_SPAWN_FAIL_TRACEME, PTBOX_SPAWN_FAIL_EXECVE}

RuntimeError(msg) == [kind |-> "instance", cls |-> "RuntimeError", args |-> msg]

\* wait(), after self._died.wait() returned: what it raises (None: nothing)
\* and what it returns (None when it raises).  The messages are the source's,
\* without the backquotes around --cap-add=SYS_PTRACE.
wait_NoUnknownCode(init, rc) ==
    LET raise(e) == [raised |-> Some(e), value |-> None]
    IN  IF init THEN [raised |-> None, value |-> rc]
        ELSE IF IsNone(rc)
        THEN raise([kind |-> "instance", cls |-> "TypeError", args |-> ""])
        ELSE IF Val(rc) = PTBOX_SPAWN_FAIL_NO_NEW_PRIVS
        THEN raise(RuntimeError("failed to call prctl(PR_SET_NO_NEW_PRIVS)"))
        ELSE IF Val(rc) = PTBOX_SPAWN_FAIL_SECCOMP
        THEN raise(RuntimeError("failed to set up seccomp policy"))
        ELSE IF Val(rc) = PTBOX_SPAWN_FAIL_TRACEME
        THEN raise(RuntimeError(
                 "failed to ptrace child, check Yama config "
                     \o "(https://www.kernel.org/doc/Documentation/security/Yama.txt, should be "
                     \o "at most 1); if running in Docker, must run container with --cap-add=SYS_PTRACE"))
        ELSE IF Val(rc) = PTBOX_SPAWN_FAIL_EXECVE
        THEN raise(RuntimeError("failed to spawn child"))
        ELSE [raised |-> None, value |-> rc]

wait(init, rc) ==
    LET raise(e) == [raised |-> Some(e), value |-> None]
    IN  IF init THEN [raised |-> None, value |-> rc]
        ELSE IF IsNone(rc)
        THEN raise([kind |-> "instance", cls |-> "TypeError", args |-> ""])
        ELSE IF Val(rc) = PTBOX_SPAWN_FAIL_NO_NEW_PRIVS
        THEN raise(RuntimeError("failed to call prctl(PR_SET_NO_NEW_PRIVS)"))
        ELSE IF Val(rc) = PTBOX_SPAWN_FAIL_SECCOMP
        THEN raise(RuntimeError("failed to set up seccomp policy"))
        ELSE IF Val(rc) = PTBOX_SPAWN_FAIL_TRACEME
        THEN raise(RuntimeError(
                 "failed to ptrace child, check Yama config "
                     \o "(https://www.kernel.org/doc/Documentation/security/Yama.txt, should be "
                     \o "at most 1); if running in Docker, must run container with --cap-add=SYS_PTRACE"))
        ELSE IF Val(rc) = PTBOX_SPAWN_FAIL_EXECVE
        THEN raise(RuntimeError("failed to spawn child"))
        ELSE IF Val(rc) >= 0
        THEN raise(RuntimeError(
                 "process failed to initialize with unknown exit code: "
                     \o ToString(Val(rc))))
        ELSE [raised |-> None, value |-> rc]

\* wait(): self._died.wait() returns, the checks of wait() run, and the
\* caller reads the results.
CallerWaitReturns ==
    /\ pc_caller = "constructed"
    /\ died
    /\ wait_result' = Some([returncode |-> returncode, is_tle |-> is_tle,
                            outcome |-> wait(was_initialized, returncode)])
    /\ pc_caller' = "returned"
    /\ UNCHANGED <<policyVars, faultVars, configVars, otherVars, sigVars, userVars,
                   was_initialized, child_fd_open,
                   spawned_or_errored, spawned_sets, died, spawn_raised, spawn_error,
                   is_tle, returncode, execution_time, wall_clock_time, child,
                   child_status, killer, pc_worker, pc_shocker, caller_exc,
                   shock_reason>>

CallerNext == CallerConstructed \/ CallerWaitReturns

---------------------------------------------------------------------------
(* The shocker thread: _shocker_thread, with kill() inlined *)

\* self._spawned_or_errored.wait() returns.
ShockerSpawned ==
    /\ pc_shocker = "wait_spawned"
    /\ spawned_or_errored
    /\ pc_shocker' = "loop"
    /\ UNCHANGED <<policyVars, faultVars, configVars, otherVars, sigVars, userVars,
                   was_initialized, child_fd_open,
                   spawned_or_errored, spawned_sets, died, spawn_raised, spawn_error,
                   is_tle, returncode, execution_time, wall_clock_time, child,
                   child_status, killer, pc_caller, pc_worker, caller_exc,
                   wait_result, shock_reason>>

\* self._died.wait(1) returns True: the loop ends.
ShockerSeesDied ==
    /\ pc_shocker = "loop"
    /\ died
    /\ pc_shocker' = "done"
    /\ UNCHANGED <<policyVars, faultVars, configVars, otherVars, sigVars, userVars,
                   was_initialized, child_fd_open,
                   spawned_or_errored, spawned_sets, died, spawn_raised, spawn_error,
                   is_tle, returncode, execution_time, wall_clock_time, child,
                   child_status, killer, pc_caller, pc_worker, caller_exc,
                   wait_result, shock_reason>>

\* self._died.wait(1) times out, then the left operand of
\* if self.execution_time > self._time or self.wall_clock_time > self._wall_time
\* reads execution_time; the right operand is evaluated only when the left
\* one is false, and reads wall_clock_time at a later moment.
ShockerCheck ==
    /\ pc_shocker = "loop"
    /\ ~died
    /\ IF execution_time > time_limit
       THEN /\ shock_reason' = "cpu"
            /\ pc_shocker' = "kill"
       ELSE /\ shock_reason' = "none"
            /\ pc_shocker' = "check_wall"
    /\ UNCHANGED <<policyVars, faultVars, configVars, otherVars, sigVars, userVars,
                   was_initialized, child_fd_open,
                   spawned_or_errored, spawned_sets, died, spawn_raised, spawn_error,
                   is_tle, returncode, execution_time, wall_clock_time, child,
                   child_status, killer, pc_caller, pc_worker, caller_exc,
                   wait_result>>

\* ... or self.wall_clock_time > self._wall_time: the second read of the
\* test, not synchronised with the monitor that advances both clocks.
ShockerCheckWall ==
    /\ pc_shocker = "check_wall"
    /\ IF wall_clock_time > wall_limit
       THEN /\ shock_reason' = "wall"
            /\ pc_shocker' = "kill"
       ELSE /\ shock_reason' = "none"
            /\ pc_shocker' = "wake"
    /\ UNCHANGED <<policyVars, faultVars, configVars, otherVars, sigVars, userVars,
                   was_initialized, child_fd_open,
                   spawned_or_errored, spawned_sets, died, spawn_raised, spawn_error,
                   is_tle, returncode, execution_time, wall_clock_time, child,
                   child_status, killer, pc_caller, pc_worker, caller_exc,
                   wait_result>>

\* kill(): if self.returncode is None (the killpg branch), else the skip
KillSends_Always(rc) == TRUE

KillSends(rc) == IsNone(rc)

\* self.kill() is called; kill(): if self.returncode is None
ShockerKillCheck ==
    /\ pc_shocker = "kill"
    /\ pc_shocker' = IF KillSends(returncode) THEN "killpg" ELSE "set_tle"
    /\ shocker_kills' = shocker_kills + 1
    /\ UNCHANGED <<kill_signals, wake_toggle>>
    /\ UNCHANGED <<policyVars, faultVars, configVars, otherVars, userVars,
                   was_initialized, child_fd_open,
                   spawned_or_errored, spawned_sets, died, spawn_raised, spawn_error,
                   is_tle, returncode, execution_time, wall_clock_time, child,
                   child_status, killer, pc_caller, pc_worker, caller_exc,
                   wait_result, shock_reason>>

\* kill(): os.killpg(self.pid, signal.SIGKILL); an OSError is printed.
ShockerKillpg ==
    /\ pc_shocker = "killpg"
    /\ IF child = "running"
       THEN /\ child' = "dead"
            /\ child_status' = Some(KILLED)
            /\ killer' = "shocker"
       ELSE UNCHANGED <<child, child_status, killer>>
    /\ pc_shocker' = "set_tle"
    /\ kill_signals' = kill_signals + 1
    /\ UNCHANGED <<shocker_kills, wake_toggle>>
    /\ UNCHANGED <<policyVars, faultVars, configVars, otherVars, userVars,
                   was_initialized, child_fd_open,
                   spawned_or_errored, spawned_sets, died, spawn_raised, spawn_error,
                   is_tle, returncode, execution_time, wall_clock_time,
                   pc_caller, pc_worker, caller_exc, wait_result, shock_reason>>

\* self._is_tle = True; break
ShockerSetTle_NoBreak ==
    /\ pc_shocker = "set_tle"
    /\ is_tle' = TRUE
    /\ pc_shocker' = "loop"
    /\ UNCHANGED <<policyVars, faultVars, configVars, otherVars, sigVars, userVars,
                   was_initialized, child_fd_open,
                   spawned_or_errored, spawned_sets, died, spawn_raised, spawn_error,
                   returncode, execution_time, wall_clock_time, child,
                   child_status, killer, pc_caller, pc_worker, caller_exc,
                   wait_result, shock_reason>>

ShockerSetTle ==
    /\ pc_shocker = "set_tle"
    /\ is_tle' = TRUE
    /\ pc_shocker' = "done"
    /\ UNCHANGED <<policyVars, faultVars, configVars, otherVars, sigVars, userVars,
                   was_initialized, child_fd_open,
                   spawned_or_errored, spawned_sets, died, spawn_raised, spawn_error,
                   returncode, execution_time, wall_clock_time, child,
                   child_status, killer, pc_caller, pc_worker, caller_exc,
                   wait_result, shock_reason>>

\* os.killpg(self.pid, wake_signal); an OSError is passed over.
ShockerWake ==
    /\ pc_shocker = "wake"
    /\ pc_shocker' = "loop"
    /\ wake_toggle' = ~wake_toggle
    /\ UNCHANGED <<shocker_kills, kill_signals>>
    /\ UNCHANGED <<policyVars, faultVars, configVars, otherVars, userVars,
                   was_initialized, child_fd_open,
                   spawned_or_errored, spawned_sets, died, spawn_raised, spawn_error,
                   is_tle, returncode, execution_time, wall_clock_time, child,
                   child_status, killer, pc_caller, pc_worker, caller_exc,
                   wait_result, shock_reason>>

ShockerNext ==
    \/ ShockerSpawned \/ ShockerSeesDied \/ ShockerCheck \/ ShockerCheckWall
    \/ ShockerKillCheck \/ ShockerKillpg \/ ShockerSetTle \/ ShockerWake

---------------------------------------------------------------------------
(* The tracee and its clocks *)

\* A second of wall-clock time passes, the tracee on the CPU or not.
Tick ==
    /\ child = "running"
    /\ was_initialized
    /\ wall_clock_time < MaxClock
    /\ wall_clock_time' = wall_clock_time + 1
    /\ \E dc \in {0, 1} : execution_time' = execution_time + dc
    /\ UNCHANGED <<policyVars, faultVars, configVars, otherVars, sigVars, userVars,
                   was_initialized, child_fd_open,
                   spawned_or_errored, spawned_sets, died, spawn_raised, spawn_error,
                   is_tle, returncode, child, child_status, killer,
                   pc_caller, pc_worker, pc_shocker, caller_exc,
                   wait_result, shock_reason>>

\* The tracee exits on its own.
ChildExit ==
    /\ child = "running"
    /\ was_initialized
    /\ \E code \in ExitCodes : child_status' = Some(code)
    /\ child' = "dead"
    /\ killer' = "itself"
    /\ UNCHANGED <<policyVars, faultVars, configVars, otherVars, sigVars, userVars,
                   was_initialized, child_fd_open,
                   spawned_or_errored, spawned_sets, died, spawn_raised, spawn_error,
                   is_tle, returncode, execution_time, wall_clock_time,
                   pc_caller, pc_worker, pc_shocker, caller_exc,
                   wait_result, shock_reason>>

\* The tracee passes its execve: the monitor sets was_initialized.
ChildInitialized ==
    /\ child = "running"
    /\ ~was_initialized
    /\ was_initialized' = TRUE
    /\ UNCHANGED <<policyVars, faultVars, configVars, otherVars, sigVars, userVars,
                   threadVars>>

\* A step between fork and execve fails (or the tracee ends there with some
\* other status): the tracee exits without being initialized.
ChildSpawnFail ==
    /\ child = "running"
    /\ ~was_initialized
    /\ \E code \in SpawnFailSentinels \cup {1} : child_status' = Some(code)
    /\ child' = "dead"
    /\ killer' = "itself"
    /\ UNCHANGED <<policyVars, faultVars, configVars, otherVars, sigVars, userVars,
                   was_initialized, child_fd_open,
                   spawned_or_errored, spawned_sets, died, spawn_raised, spawn_error,
                   is_tle, returncode, execution_time, wall_clock_time,
                   pc_caller, pc_worker, pc_shocker, caller_exc,
                   wait_result, shock_reason>>

EnvNext == Tick \/ ChildExit \/ ChildInitialized \/ ChildSpawnFail

---------------------------------------------------------------------------
(* kill() called from a thread of the embedding program *)

\* The number of kill() calls that thread makes.
MaxKills == 2

\* os.killpg raises OSError (ESRCH) once the monitor has reaped the tracee.
KillpgRaises(rc) == ~IsNone(rc)

\* try: os.killpg(...) except OSError: traceback.print_exc()
\* What leaves kill() when killpg raised or did not (None: nothing).
KillExcept(oserror) == None

\* kill() is called on the constructed object: if self.returncode is None
UserKillCheck ==
    /\ pc_user = "idle"
    /\ pc_caller \in {"constructed", "returned"}
    /\ user_kills < MaxKills
    /\ user_kills' = user_kills + 1
    /\ user_late' = ~IsNone(returncode)
    /\ pc_user' = IF KillSends(returncode) THEN "killpg" ELSE "idle"
    /\ UNCHANGED <<policyVars, faultVars, configVars, otherVars, sigVars,
                   was_initialized, threadVars, user_signals, user_exc>>

\* kill(): os.killpg(self.pid, signal.SIGKILL); an OSError is printed.
UserKillpg ==
    /\ pc_user = "killpg"
    /\ IF child = "running"
       THEN /\ child' = "dead"
            /\ child_status' = Some(KILLED)
            /\ killer' = "user"
       ELSE UNCHANGED <<child, child_status, killer>>
    /\ user_signals' = user_signals + 1
    /\ user_exc' = KillExcept(KillpgRaises(returncode))
    /\ pc_user' = "idle"
    /\ UNCHANGED <<policyVars, faultVars, configVars, otherVars, sigVars,
                   was_initialized, child_fd_open,
                   spawned_or_errored, spawned_sets, died, spawn_raised, spawn_error,
                   is_tle, returncode, execution_time, wall_clock_time,
                   pc_caller, pc_worker, pc_shocker, caller_exc,
                   wait_result, shock_reason, user_kills, user_late>>

UserNext == UserKillCheck \/ UserKillpg

---------------------------------------------------------------------------
(* judge.py: ProgramJudge.run on the main thread, write_async on its own
   thread, and the judged process *)

\* Everything of the tracer and the debugger: untouched by judge.py.
tracerVars == <<policyVars, faultVars, configVars, threadVars, was_initialized,
                sigVars, userVars, name_result, rs_in, rs_out>>

\* Result.AC, Result.WA
AC == 0
WA == 1

\* ProgramJudge.EOF = ""
EOF == <<>>

\* Text is a sequence of characters; these are the whitespace ones.
Whitespace == {" ", "LF", "CR"}

\* str.strip()
RECURSIVE LStrip(_)
LStrip(t) == IF t # <<>> /\ Head(t) \in Whitespace THEN LStrip(Tail(t)) ELSE t
RECURSIVE RStrip(_)
RStrip(t) ==
    IF t # <<>> /\ t[Len(t)] \in Whitespace THEN RStrip(SubSeq(t, 1, Len(t) - 1))
    ELSE t
Strip(t) == RStrip(LStrip(t))

\* str.replace('\r\n', '\n')
RECURSIVE ReplaceCRLF(_)
ReplaceCRLF(t) ==
    IF t = <<>> THEN <<>>
    ELSE IF Len(t) >= 2 /\ t[1] = "CR" /\ t[2] = "LF"
    THEN <<"LF">> \o ReplaceCRLF(SubSeq(t, 3, Len(t)))
    ELSE <<Head(t)>> \o ReplaceCRLF(Tail(t))

\* The input file, the output file, and what the judged process may print.
InputFiles == {<<"1", " ", "2", "LF">>, <<"LF">>}
OutputFile == <<"3", "LF">>
ProcessOutputs == {<<"3", "CR", "LF">>, <<"4", "LF">>, <<"LF", "3">>}

\* The thread t calls self.alive(arg), to come back at ret.
CallAlive(t, ret, arg) ==
    [jthread EXCEPT ![t] = [pc |-> "alive", ret |-> ret, arg |-> arg,
                            val |-> @.val, polled |-> @.polled]]

\* alive(): if not self.stopped
AliveStopped ==
    \E t \in JudgeThreads :
        /\ jthread[t].pc = "alive"
        /\ jthread' = [jthread EXCEPT ![t].pc =
                           IF stopped THEN "alive_return" ELSE "alive_poll"]
        /\ UNCHANGED <<tracerVars, has_result, write_lock, write_queue, stopped,
                       exitcode, result_flag, process_output, proc, proc_stdout,
                       stdin_closed, test_case, rl_line, stdout_pos>>

\* alive(): self.process.poll() returns
AlivePoll ==
    \E t \in JudgeThreads :
        /\ jthread[t].pc = "alive_poll"
        /\ jthread' = [jthread EXCEPT
                           ![t].pc = "alive_store",
                           ![t].polled = IF proc = "exited" THEN Some(0) ELSE None]
        /\ UNCHANGED <<tracerVars, has_result, write_lock, write_queue, stopped,
                       exitcode, result_flag, process_output, proc, proc_stdout,
                       stdin_closed, test_case, rl_line, stdout_pos>>

\* alive(): self.exitcode = what poll() returned
AliveStore ==
    \E t \in JudgeThreads :
        /\ jthread[t].pc = "alive_store"
        /\ exitcode' = jthread[t].polled
        /\ jthread' = [jthread EXCEPT ![t].pc = "alive_test"]
        /\ UNCHANGED <<tracerVars, has_result, write_lock, write_queue, stopped,
                       result_flag, process_output, proc, proc_stdout,
                       stdin_closed, test_case, rl_line, stdout_pos>>

\* alive(): if self.exitcode is not None
AliveTest ==
    \E t \in JudgeThreads :
        /\ jthread[t].pc = "alive_test"
        /\ jthread' = [jthread EXCEPT ![t].pc =
                IF ~IsNone(exitcode) THEN "alive_stop" ELSE "alive_return"]
        /\ UNCHANGED <<tracerVars, has_result, write_lock, write_queue, stopped,
                       exitcode, result_flag, process_output, proc, proc_stdout,
                       stdin_closed, test_case, rl_line, stdout_pos>>

\* alive(): sys.stdin and sys.stdout are put back (they were never replaced:
\* redirect is False), then self.stopped = True.  Another thread may run
\* between the test of self.exitcode and this store.
AliveStop ==
    \E t \in JudgeThreads :
        /\ jthread[t].pc = "alive_stop"
        /\ stopped' = TRUE
        /\ jthread' = [jthread EXCEPT ![t].pc = "alive_flag"]
        /\ UNCHANGED <<tracerVars, has_result, write_lock, write_queue,
                       exitcode, result_flag, process_output, proc, proc_stdout,
                       stdin_closed, test_case, rl_line, stdout_pos>>

\* alive(): self.result.result_flag = result_flag, on the Result that
\* self.result is at this moment; while self.result is None the line raises
\* AttributeError, which leaves alive() and its caller (write_async catches
\* it and ends).
AliveSetFlag ==
    \E t \in JudgeThreads :
        /\ jthread[t].pc = "alive_flag"
        /\ IF has_result
           THEN /\ result_flag' = jthread[t].arg
                /\ jthread' = [jthread EXCEPT ![t].pc = "alive_acquire"]
           ELSE /\ UNCHANGED result_flag
                /\ jthread' = [jthread EXCEPT ![t].pc =
                                   IF t = "main" THEN "raised" ELSE "done"]
        /\ UNCHANGED <<tracerVars, has_result, write_lock, write_queue, stopped,
                       exitcode, process_output, proc, proc_stdout,
                       stdin_closed, test_case, rl_line, stdout_pos>>

\* alive(): self.write_lock.acquire() returns: the lock was free.
AliveAcquire ==
    \E t \in JudgeThreads :
        /\ jthread[t].pc = "alive_acquire"
        /\ write_lock = "free"
        /\ write_lock' = t
        /\ jthread' = [jthread EXCEPT ![t].pc = "alive_return"]
        /\ UNCHANGED <<tracerVars, has_result, write_queue, stopped, exitcode,
                       result_flag, process_output, proc, proc_stdout,
                       stdin_closed, test_case, rl_line, stdout_pos>>

\* alive(): return not self.stopped
AliveReturn ==
    \E t \in JudgeThreads :
        /\ jthread[t].pc = "alive_return"
        /\ jthread' = [jthread EXCEPT ![t].pc = jthread[t].ret, ![t].val = ~stopped]
        /\ UNCHANGED <<tracerVars, has_result, write_lock, write_queue, stopped,
                       exitcode, result_flag, process_output, proc, proc_stdout,
                       stdin_closed, test_case, rl_line, stdout_pos>>

AliveNext ==
    \/ AliveStopped \/ AlivePoll \/ AliveStore \/ AliveTest \/ AliveStop \/ AliveSetFlag
    \/ AliveAcquire \/ AliveReturn

\* run(): self.result = result, a Result() whose result_flag is 0;
\* thread.start_new_thread(self.write_async, ...)
RunStart ==
    /\ jthread["main"].pc = "run"
    /\ has_result' = TRUE
    /\ result_flag' = Some(0)
    /\ jthread' = [jthread EXCEPT !["main"].pc = "write_data",
                                  ![Writer(test_case)].pc = "try_lock"]
    /\ UNCHANGED <<tracerVars, write_lock, write_queue, stopped, exitcode,
                   process_output, proc, proc_stdout, stdin_closed, test_case,
                   rl_line, stdout_pos>>

\* run(): self.write(fi.read().strip())
RunWriteData ==
    /\ jthread["main"].pc = "write_data"
    /\ \E fi \in InputFiles : write_queue' = Append(write_queue, Strip(fi))
    /\ jthread' = [jthread EXCEPT !["main"].pc = "write_eof"]
    /\ UNCHANGED <<tracerVars, has_result, write_lock, stopped, exitcode,
                   result_flag, process_output, proc, proc_stdout, stdin_closed,
                   test_case, rl_line, stdout_pos>>

\* run(): self.write(ProgramJudge.EOF); then read() calls self.alive()
RunWriteEof ==
    /\ jthread["main"].pc = "write_eof"
    /\ write_queue' = Append(write_queue, EOF)
    /\ jthread' = CallAlive("main", "read", None)
    /\ UNCHANGED <<tracerVars, has_result, write_lock, stopped, exitcode,
                   result_flag, process_output, proc, proc_stdout, stdin_closed,
                   test_case, rl_line, stdout_pos>>

\* read(): self.process.stdout.read() if self.alive() else ""
ReadAfterAlive ==
    /\ jthread["main"].pc = "read"
    /\ IF jthread["main"].val
       THEN /\ jthread' = [jthread EXCEPT !["main"].pc = "read_block"]
            /\ UNCHANGED process_output
       ELSE /\ process_output' = Some(ReplaceCRLF(Strip(<<>>)))
            /\ jthread' = [jthread EXCEPT !["main"].pc = "close"]
    /\ UNCHANGED <<tracerVars, has_result, write_lock, write_queue, stopped,
                   exitcode, result_flag, proc, proc_stdout, stdin_closed,
                   test_case, rl_line, stdout_pos>>

\* self.process.stdout.read() returns at the end of the process's output;
\* process_output = self.read().strip().replace('\r\n', '\n')
ReadBlock ==
    /\ jthread["main"].pc = "read_block"
    /\ proc \in {"closing", "exited"}
    /\ process_output' =
           Some(ReplaceCRLF(Strip(SubSeq(proc_stdout, stdout_pos + 1,
                                         Len(proc_stdout)))))
    /\ stdout_pos' = Len(proc_stdout)
    /\ jthread' = [jthread EXCEPT !["main"].pc = "close"]
    /\ UNCHANGED <<tracerVars, has_result, write_lock, write_queue, stopped,
                   exitcode, result_flag, proc, proc_stdout, stdin_closed,
                   test_case, rl_line>>

\* run(): result_flag = 0; if process_output != judge_output: |= Result.WA
RunResultFlag(output) ==
    IF output # ReplaceCRLF(Strip(OutputFile)) THEN WA ELSE AC

\* run(): self.close(result_flag=result_flag);
\* close(): if self.result and self.alive(result_flag)
CloseCall ==
    /\ jthread["main"].pc = "close"
    /\ jthread' = IF has_result
                  THEN CallAlive("main", "close_alive",
                                 Some(RunResultFlag(Val(process_output))))
                  ELSE [jthread EXCEPT !["main"].pc = "returned"]
    /\ UNCHANGED <<tracerVars, has_result, write_lock, write_queue, stopped,
                   exitcode, result_flag, process_output, proc, proc_stdout,
                   stdin_closed, test_case, rl_line, stdout_pos>>

\* close(): alive() returned; when True: self.result.result_flag = result_flag
CloseAfterAlive ==
    /\ jthread["main"].pc = "close_alive"
    /\ IF jthread["main"].val
       THEN /\ result_flag' = jthread["main"].arg
            /\ jthread' = [jthread EXCEPT !["main"].pc = "close_acquire"]
       ELSE /\ jthread' = [jthread EXCEPT !["main"].pc = "returned"]
            /\ UNCHANGED result_flag
    /\ UNCHANGED <<tracerVars, has_result, write_lock, write_queue, stopped,
                   exitcode, process_output, proc, proc_stdout, stdin_closed,
                   test_case, rl_line, stdout_pos>>

\* close(): self.write_lock.acquire() returns: the lock was free.
CloseAcquire ==
    /\ jthread["main"].pc = "close_acquire"
    /\ write_lock = "free"
    /\ write_lock' = "main"
    /\ jthread' = [jthread EXCEPT !["main"].pc = "close_wait"]
    /\ UNCHANGED <<tracerVars, has_result, write_queue, stopped, exitcode,
                   result_flag, process_output, proc, proc_stdout, stdin_closed,
                   test_case, rl_line, stdout_pos>>

\* close(): self.exitcode = self.process.wait()
CloseWait ==
    /\ jthread["main"].pc = "close_wait"
    /\ proc = "exited"
    /\ exitcode' = Some(0)
    /\ jthread' = [jthread EXCEPT !["main"].pc = "close_stop"]
    /\ UNCHANGED <<tracerVars, has_result, write_lock, write_queue, stopped,
                   result_flag, process_output, proc, proc_stdout, stdin_closed,
                   test_case, rl_line, stdout_pos>>

\* close(): self.stopped = True
CloseStop ==
    /\ jthread["main"].pc = "close_stop"
    /\ stopped' = TRUE
    /\ jthread' = [jthread EXCEPT !["main"].pc = "returned"]
    /\ UNCHANGED <<tracerVars, has_result, write_lock, write_queue, exitcode,
                   result_flag, process_output, proc, proc_stdout, stdin_closed,
                   test_case, rl_line, stdout_pos>>

MainNext ==
    \/ RunStart \/ RunWriteData \/ RunWriteEof \/ ReadAfterAlive \/ ReadBlock
    \/ CloseCall \/ CloseAfterAlive \/ CloseAcquire \/ CloseWait \/ CloseStop

\* write_async: while write_lock.acquire(False) and self.alive(): the
\* non-blocking acquire; when it fails the loops end.
WriterTryLock ==
    \E w \in Writers :
        /\ jthread[w].pc = "try_lock"
        /\ IF write_lock = "free"
           THEN /\ write_lock' = w
                /\ jthread' = CallAlive(w, "loop", None)
           ELSE /\ jthread' = [jthread EXCEPT ![w].pc = "done"]
                /\ UNCHANGED write_lock
        /\ UNCHANGED <<tracerVars, has_result, write_queue, stopped, exitcode,
                       result_flag, process_output, proc, proc_stdout,
                       stdin_closed, test_case, rl_line, stdout_pos>>

\* write_async: alive() returned; when True: write_lock.release(), else the
\* loops end with the lock held.
WriterAfterAlive ==
    \E w \in Writers :
        /\ jthread[w].pc = "loop"
        /\ IF jthread[w].val
           THEN /\ write_lock' = "free"
                /\ jthread' = [jthread EXCEPT ![w].pc = "get"]
           ELSE /\ jthread' = [jthread EXCEPT ![w].pc = "done"]
                /\ UNCHANGED write_lock
        /\ UNCHANGED <<tracerVars, has_result, write_queue, stopped, exitcode,
                       result_flag, process_output, proc, proc_stdout,
                       stdin_closed, test_case, rl_line, stdout_pos>>

\* write_async: data = self.write_queue.get(False, 1); an empty queue goes
\* round the loop, otherwise the item is taken and the inner loop is left
\* (break).  What was taken decides the line that follows (if data ==
\* ProgramJudge.EOF), and other threads run before that line.
WriterGet ==
    \E w \in Writers :
        /\ jthread[w].pc = "get"
        /\ IF write_queue = <<>>
           THEN /\ jthread' = [jthread EXCEPT ![w].pc = "try_lock"]
                /\ UNCHANGED write_queue
           ELSE /\ write_queue' = Tail(write_queue)
                /\ jthread' = [jthread EXCEPT ![w].pc =
                        IF Head(write_queue) = EOF THEN "eof" ELSE "write"]
        /\ UNCHANGED <<tracerVars, has_result, write_lock, stopped, exitcode,
                       stdin_closed,
                       result_flag, process_output, proc, proc_stdout,
                       test_case, rl_line, stdout_pos>>

\* write_async, data == ProgramJudge.EOF: self.process.stdin.close(); break
WriterEof ==
    \E w \in Writers :
        /\ jthread[w].pc = "eof"
        /\ stdin_closed' = TRUE
        /\ jthread' = [jthread EXCEPT ![w].pc = "done"]
        /\ UNCHANGED <<tracerVars, has_result, write_lock, write_queue, stopped,
                       exitcode,
                       result_flag, process_output, proc, proc_stdout,
                       test_case, rl_line, stdout_pos>>

\* write_async, other data: self.process.stdin.write(data), then round the
\* outer loop; a write to a process that has closed its pipes raises, which
\* ends the thread in its except clause.
WriterWrite ==
    \E w \in Writers :
        /\ jthread[w].pc = "write"
        /\ jthread' = [jthread EXCEPT ![w].pc =
                IF proc # "running" THEN "done" ELSE "try_lock"]
        /\ UNCHANGED <<tracerVars, has_result, write_lock, write_queue, stopped,
                       exitcode, stdin_closed,
                       result_flag, process_output, proc, proc_stdout,
                       test_case, rl_line, stdout_pos>>

WriterNext ==
    \/ WriterTryLock \/ WriterAfterAlive \/ WriterGet \/ WriterEof \/ WriterWrite

\* The judged process prints its answer and closes its pipes on its way out.
ProcessFinish ==
    /\ proc = "running"
    /\ proc' = "closing"
    /\ \E out \in ProcessOutputs : proc_stdout' = out
    /\ UNCHANGED <<tracerVars, has_result, jthread, write_lock, write_queue,
                   stopped, exitcode, result_flag, process_output, stdin_closed,
                   test_case, rl_line, stdout_pos>>

\* The judged process has exited: poll() and wait() report its exit code.
ProcessExit ==
    /\ proc = "closing"
    /\ proc' = "exited"
    /\ UNCHANGED <<tracerVars, has_result, jthread, write_lock, write_queue,
                   stopped, exitcode, result_flag, process_output, proc_stdout,
                   stdin_closed, test_case, rl_line, stdout_pos>>

\* ProgramJudge constructed on a started process; the tracer is not in use.
InitJudge ==
    /\ security = [c \in {} |-> ALLOW]
    /\ callbacks = InitCallbacks(security)
    /\ handlers = InitHandlers(security)
    /\ whitelist = None
    /\ dbg_abi = NATIVE_ABI /\ dbg_syscall = 0 /\ dbg_uargs = StopArgs
    /\ cb_result = None /\ verdict = None
    /\ last_ptrace_errno = None /\ protection_fault = None
    /\ logged_errno = None
    /\ op = "judge"
    /\ ThreadsIdle

\* Judge.run: run() has returned; test_case_status_packet is given
\* result.result_flag and the result is yielded to the consumer.
CaseYield ==
    /\ jthread["main"].pc = "returned"
    /\ jthread' = [jthread EXCEPT !["main"].pc = "yielded"]
    /\ UNCHANGED <<tracerVars, has_result, write_lock, write_queue, stopped,
                   exitcode, result_flag, process_output, proc, proc_stdout,
                   stdin_closed, test_case, rl_line, stdout_pos>>

\* Judge.run: the consumer asks for the next result and the loop goes on to
\* judge.run(Result(), ...) for the next test case on the same ProgramJudge.
NextCase ==
    /\ jthread["main"].pc = "yielded"
    /\ test_case < MaxCases
    /\ test_case' = test_case + 1
    /\ jthread' = [jthread EXCEPT !["main"].pc = "run"]
    /\ UNCHANGED <<tracerVars, has_result, write_lock, write_queue, stopped,
                   exitcode, result_flag, process_output, proc, proc_stdout,
                   stdin_closed, rl_line, stdout_pos>>

NextJudge ==
    \/ MainNext \/ WriterNext \/ AliveNext \/ ProcessFinish \/ ProcessExit
    \/ CaseYield \/ NextCase

SpecJudge == InitJudge /\ [][NextJudge]_vars

\* file.readline(): the unread text up to and with its first newline, or all
\* of it when it has none.
FirstLine(t) ==
    IF \E i \in 1 .. Len(t) : t[i] = "LF"
    THEN SubSeq(t, 1, CHOOSE i \in 1 .. Len(t) :
                          t[i] = "LF" /\ \A k \in 1 .. i - 1 : t[k] # "LF")
    ELSE t

\* readline(): if not self.alive(): return ""
ReadlineCall ==
    /\ jthread["main"].pc \in {"run", "rl_returned", "raised"}
    /\ jthread' = CallAlive("main", "rl_first", None)
    /\ UNCHANGED <<tracerVars, has_result, write_lock, write_queue, stopped,
                   exitcode, result_flag, process_output, proc, proc_stdout,
                   stdin_closed, test_case, rl_line, stdout_pos>>

ReadlineFirst ==
    /\ jthread["main"].pc = "rl_first"
    /\ IF jthread["main"].val
       THEN /\ jthread' = [jthread EXCEPT !["main"].pc = "rl_read"]
            /\ UNCHANGED rl_line
       ELSE /\ jthread' = [jthread EXCEPT !["main"].pc = "rl_returned"]
            /\ rl_line' = Some(<<>>)
    /\ UNCHANGED <<tracerVars, has_result, write_lock, write_queue, stopped,
                   exitcode, result_flag, process_output, proc, proc_stdout,
                   stdin_closed, test_case, stdout_pos>>

\* readline(): line = self.process.stdout.readline().rstrip(), which comes
\* back when the process has written a line or closed its stdout; then the
\* test of while not line and self.alive(), and return line.rstrip().
ReadlineRead ==
    /\ jthread["main"].pc = "rl_read"
    /\ proc \in {"closing", "exited"}
    /\ LET unread == SubSeq(proc_stdout, stdout_pos + 1, Len(proc_stdout))
           line == RStrip(FirstLine(unread))
       IN /\ stdout_pos' = stdout_pos + Len(FirstLine(unread))
          /\ rl_line' = Some(RStrip(line))
          /\ jthread' = IF line = <<>>
                        THEN CallAlive("main", "rl_loop", None)
                        ELSE [jthread EXCEPT !["main"].pc = "rl_returned"]
    /\ UNCHANGED <<tracerVars, has_result, write_lock, write_queue, stopped,
                   exitcode, result_flag, process_output, proc, proc_stdout,
                   stdin_closed, test_case>>

\* readline(): while not line and self.alive(): read again; else return ""
ReadlineLoop ==
    /\ jthread["main"].pc = "rl_loop"
    /\ jthread' = [jthread EXCEPT !["main"].pc =
                       IF jthread["main"].val THEN "rl_read" ELSE "rl_returned"]
    /\ UNCHANGED <<tracerVars, has_result, write_lock, write_queue, stopped,
                   exitcode, result_flag, process_output, proc, proc_stdout,
                   stdin_closed, test_case, rl_line, stdout_pos>>

\* readline() called, once or again and again, on a ProgramJudge as
\* __init__ leaves it: self.result is None and no write_async is running.
NextReadline ==
    \/ ReadlineCall \/ ReadlineFirst \/ ReadlineRead \/ ReadlineLoop
    \/ AliveNext \/ ProcessFinish \/ ProcessExit

SpecReadline == InitJudge /\ [][NextReadline]_vars

---------------------------------------------------------------------------
(* Specifications *)

Next == WorkerNext \/ CallerNext \/ ShockerNext \/ EnvNext

Spec == Init /\ [][Next]_vars

\* The traced run with kill() called from outside: one stream layout, the
\* default wall limit, with and without a time limit.
InitUser ==
    /\ Init
    /\ time_limit \in {0, 1}
    /\ wall_limit = WallTime(time_limit, None)
    /\ needs_close.stdin

NextUser == Next \/ UserNext

SpecUser == InitUser /\ [][NextUser]_vars

\* Every started thread is scheduled again and again.  Fairness covers the
\* steps a thread takes by itself; what the tracee does while _monitor()
\* blocks (a syscall stop, a ptrace failure, a CPU-time stop, its exit) is
\* not scheduling and no fairness is assumed for it: a tracee may run on
\* for ever.  _monitor() returning once the tracee is dead (MonitorExit) is
\* the worker's own step.
SpecFair ==
    /\ Spec
    /\ WF_vars(\/ WorkerSpawnOk \/ WorkerSpawnRaise \/ WorkerStoreError
               \/ WorkerErrorDied \/ WorkerCloseStdin \/ WorkerCloseStdout
               \/ WorkerCloseStderr \/ WorkerSetSpawned \/ WorkerOomAdjust
               \/ MonitorExit \/ WorkerCheckTle \/ WorkerSetDied)
    /\ WF_vars(CallerNext)
    /\ WF_vars(ShockerNext)

---------------------------------------------------------------------------
(* Claims *)

ChildEndsClosed == \A f \in Streams : needs_close[f] => ~child_fd_open[f]
ShockerFinished == pc_shocker \in {"off", "done"}

\* C1: spawned_or_errored is set exactly once and before died: died is never
\* set while spawned_or_errored is not, on any path of _run_process.
C1_SpawnedPrecedesDied ==
    /\ spawned_sets <= 1
    /\ died => spawned_or_errored

\* C2: when _spawn does not raise, spawned_or_errored is eventually set (and
\* is set before died), and once the tracee is dead died is eventually set,
\* wait() returns in the caller and the shocker leaves its loop.
C2_SpawnedThenDiedEventually ==
    /\ (child # "none") ~> spawned_or_errored
    /\ [](died /\ IsNone(spawn_raised) => spawned_or_errored)
    /\ (child = "dead") ~> (died /\ pc_caller = "returned" /\ ShockerFinished)

C2_Witness ==
    /\ IsNone(spawn_raised)
    /\ spawned_or_errored /\ died
    /\ pc_caller = "returned"
    /\ pc_shocker = "done"
    /\ returncode = Some(0)

\* C3: the exception _spawn raised is the one stored and the one the
\* constructor raises in the caller thread.
C3_SpawnErrorReraised ==
    /\ ~IsNone(spawn_error) => spawn_error = spawn_raised
    /\ pc_caller = "raised" => caller_exc = spawn_raised

\* C4: for a supported ABI and a native number n of a canonical syscall S
\* that the security map denies or does not hold, _callback returns False
\* without calling a caller function, the monitor's decision is deny, and the
\* protection fault holds n and the name of S.
C4_DeniedSyscallFaults ==
    \A abi \in SUPPORTED_ABIS : \A S \in Canonicals : \A n \in NativeFor(abi, S) :
        (DictGet(security, S, DISALLOW) = DISALLOW /\ dbg_abi = abi /\ dbg_syscall = n)
        => /\ op = "callback" =>
                cb_result = Some([ret |-> FALSE, invoked |-> None, raised |-> None])
           /\ op = "stop" =>
                /\ verdict = Some(FALSE)
                /\ IsNone(Val(cb_result).invoked)
                /\ ~IsNone(protection_fault)
                /\ protection_fault[1] = n
                /\ protection_fault[2] = by_id(S)

C4_Witness ==
    /\ op = "stop"
    /\ dbg_abi = ABI_X86 /\ dbg_syscall = 5
    /\ sys_open \in DOMAIN security /\ security[sys_open] = DISALLOW
    /\ DictGet(security, sys_exit_group, DISALLOW) = CbAllow
    /\ protection_fault[2] = "open"

\* C5: entry n of the seccomp whitelist is true iff n is a native-ABI number
\* of a canonical syscall other than exit and exit_group whose handler is
\* ALLOW; the numbers of exit and exit_group are false whatever the policy.
C5_WhitelistIffAllow ==
    op = "whitelist" =>
        /\ \A n \in 0 .. (MAX_SYSCALL_NUMBER - 1) :
              Val(whitelist)[n] <=>
                 \E c \in Canonicals \ {sys_exit, sys_exit_group} :
                    /\ n \in NativeFor(NATIVE_ABI, c)
                    /\ c \in DOMAIN security
                    /\ security[c] = ALLOW
        /\ \A c \in {sys_exit, sys_exit_group} : \A n \in NativeFor(NATIVE_ABI, c) :
              ~Val(whitelist)[n]

C5_Witness ==
    /\ op = "whitelist"
    /\ DictGet(security, sys_exit, DISALLOW) = ALLOW
    /\ DictGet(security, sys_exit_group, DISALLOW) = ALLOW
    /\ DictGet(security, sys_read, DISALLOW) = ALLOW
    /\ DictGet(security, sys_open, DISALLOW) = CbAllow
    /\ Val(whitelist)[0]
    /\ ~Val(whitelist)[4] /\ ~Val(whitelist)[5] /\ ~Val(whitelist)[2]

\* C6: _callback returns False for an invalid ABI, the callback's verdict for
\* a number of 0..MAX_SYSCALL_NUMBER-1 with a callback, False for such a
\* number without one, and for any other number True iff the ABI is ARM and
\* 0xF0000 < n < 0xF0006.
C6_CallbackVerdict ==
    op = "callback" =>
        LET n == dbg_syscall
            r == Val(cb_result).ret
        IN  IF dbg_abi = PTBOX_ABI_INVALID THEN r = FALSE
            ELSE IF 0 <= n /\ n < MAX_SYSCALL_NUMBER
            THEN r = (IF IsNone(callbacks[dbg_abi][n]) THEN FALSE
                      ELSE CallHandler(Val(callbacks[dbg_abi][n])))
            ELSE r = (dbg_abi = ABI_ARM /\ ARM_PRIVATE_LOW < n /\ n < ARM_PRIVATE_HIGH)

\* C7: a stop with syscall -1 records (-1, "ptrace fail", six zeros, the errno
\* last reported through _ptrace_error) and does not continue the tracee.
C7_PtraceFailRecordsErrno ==
    (op = "stop" /\ dbg_syscall = -1) =>
        /\ verdict = Some(FALSE)
        /\ protection_fault = <<-1, "ptrace fail", ZeroArgs, last_ptrace_errno>>

\* C8: once died is set no thread writes return_code, execution_time,
\* wall_clock_time, protection_fault or is_tle.
C8_SnapshotImmutable ==
    [][died => /\ returncode' = returncode
               /\ execution_time' = execution_time
               /\ wall_clock_time' = wall_clock_time
               /\ protection_fault' = protection_fault
               /\ is_tle' = is_tle]_vars

\* C9: when the shocker killed the tracee for its wall-clock time alone,
\* is_tle is true when the caller's wait() returns.
C9_WallTleSeenByWait ==
    (/\ pc_caller = "returned"
     /\ killer = "shocker"
     /\ shock_reason = "wall"
     /\ execution_time <= time_limit)
        => Val(wait_result).is_tle

\* C10: whenever died is set the shocker has left its loop and the worker has
\* closed every child-side pipe end opened for a PIPE stream.
C10_DiedImpliesReleased ==
    died => (ShockerFinished /\ ChildEndsClosed)

\* C11: the watchdog (shocker) thread is started iff the time limit is
\* positive; with a zero or negative limit no watchdog runs and the
\* supervisor sends neither a wake nor a kill signal of its own.
C11_WatchdogIffPositiveLimit ==
    /\ (pc_shocker # "off") <=> (time_limit > 0)
    /\ time_limit <= 0 =>
          (shocker_kills = 0 /\ kill_signals = 0 /\ wake_toggle = FALSE)

\* C12: wait() returns only after died is set.  For a tracee that was never
\* initialized it raises a RuntimeError whose message differs from sentinel
\* to sentinel when the return code is one of the four spawn-failure
\* sentinels, and it raises for every other non-negative return code; in
\* every other case it returns the return code as recorded.
C12_WaitTranslatesSpawnFailures ==
    /\ \A a, b \in SpawnFailSentinels :
          a # b => /\ wait(FALSE, Some(a)).raised # None
                   /\ wait(FALSE, Some(a)).raised # wait(FALSE, Some(b)).raised
    /\ pc_caller = "returned" =>
          /\ died
          /\ ~IsNone(returncode)
          /\ LET out == Val(wait_result).outcome
                 rc == Val(returncode)
             IN  IF ~was_initialized /\ (rc \in SpawnFailSentinels \/ rc >= 0)
                 THEN /\ ~IsNone(out.raised)
                      /\ Val(out.raised).cls = "RuntimeError"
                      /\ IsNone(out.value)
                 ELSE /\ IsNone(out.raised)
                      /\ out.value = returncode
                      /\ out.value = child_status

\* wait() raised for a tracee whose execve failed.
C12_Witness ==
    /\ pc_caller = "returned"
    /\ ~was_initialized
    /\ returncode = Some(PTBOX_SPAWN_FAIL_EXECVE)
    /\ Val(wait_result).outcome.raised = Some(RuntimeError("failed to spawn child"))

\* C14: kill() never raises, whichever thread calls it and whenever (an
\* OSError of killpg is swallowed), and a kill() that starts once returncode
\* is recorded sends no signal to the process group.
C14_KillNeverRaisesNorSignalsLate ==
    /\ [](/\ IsNone(user_exc)
          /\ user_late => pc_user # "killpg"
          /\ user_signals <= user_kills)
    /\ [][(pc_shocker = "kill" /\ ~IsNone(returncode))
              => pc_shocker' # "killpg"]_vars

\* A kill() found the return code recorded and skipped, after an earlier
\* kill() had killed the tracee.
C14_Witness ==
    /\ user_kills = 2 /\ user_signals = 1
    /\ user_late /\ pc_user = "idle"
    /\ killer = "user"
    /\ ~IsNone(returncode)

\* C15: under every ABI but the invalid one, get_syscall_name of a native
\* number of canonical syscall c is by_id[c], and a number that no canonical
\* syscall holds under that ABI resolves to "unknown".
C15_NameIsLeftInverse ==
    (op = "name" /\ dbg_abi # PTBOX_ABI_INVALID) =>
        /\ \A c \in Canonicals :
              InCalls(dbg_syscall, translator(c, SYSCALL_INDICIES(dbg_abi)))
                  => name_result = Some(by_id(c))
        /\ (\A c \in Canonicals :
              ~InCalls(dbg_syscall, translator(c, SYSCALL_INDICIES(dbg_abi))))
                  => name_result = Some("unknown")

\* The second x64 number of open resolved to the name of open.
C15_Witness ==
    /\ op = "name" /\ dbg_abi = ABI_X64
    /\ dbg_syscall \in NativeFor(ABI_X64, sys_open)
    /\ dbg_syscall # MinOf(NativeFor(ABI_X64, sys_open))
    /\ name_result = Some(by_id(sys_open))

\* What readstr must produce when it raises once the first NUL of readable
\* memory lies beyond the first `limit` bytes: None for unreadable memory,
\* else MaxLengthExceeded or the text before the NUL, at most max_size long.
ReadstrWithin(limit) ==
    LET in == Val(rs_in)
        out == Val(rs_out).result
        nul == FirstNul(in.mem.bytes)
    IN  IF ~in.mem.readable THEN out.kind = "none"
        ELSE IF nul > limit THEN out.kind = "MaxLengthExceeded"
        ELSE /\ out.kind = "str"
             /\ out.value = utf8text(SubSeq(in.mem.bytes, 1, nul - 1))
             /\ Len(out.value) <= in.max_size

\* C16 (as stated): readstr returns None for unreadable memory, raises
\* MaxLengthExceeded whenever no NUL occurs within the first max_size bytes,
\* and otherwise returns the string, which is at most max_size long.
C16_ReadstrRaisesBeyondMaxSize ==
    op = "readstr" => ReadstrWithin(Val(rs_in).max_size)

\* C16 (amended): readstr returns None for unreadable memory, raises
\* MaxLengthExceeded whenever no NUL occurs within the first max_size + 1
\* bytes (the string is longer than max_size), and otherwise returns the
\* string, which is at most max_size long.
C16_ReadstrRaisesBeyondMaxSizePlusOne ==
    op = "readstr" => ReadstrWithin(Val(rs_in).max_size + 1)

\* A string of exactly max_size bytes, its NUL the byte after them, came back.
C16_Witness ==
    /\ op = "readstr"
    /\ Val(rs_in).mem.readable
    /\ Val(rs_in).max_size = 2
    /\ FirstNul(Val(rs_in).mem.bytes) = 3
    /\ Val(rs_out).result = [kind |-> "str", value |-> <<"A", "B">>]

\* The value of a 64-bit register modulo 2^32: its two low limbs.
Mod2Pow32(a) == <<0, 0, a[3], a[4]>>

\* C17: under a 32-bit ABI (x86, x32, arm) the address readstr hands to the
\* memory read is the register value modulo 2^32; under a 64-bit ABI it is
\* the register value unchanged.
C17_AddressFitsAddressBits ==
    op = "readstr" =>
        LET address == Val(rs_in).address
            passed == Val(rs_out).address
        IN  /\ dbg_abi \in {ABI_X86, ABI_X32, ABI_ARM} => passed = Mod2Pow32(address)
            /\ dbg_abi \in {ABI_X64, ABI_ARM64, ABI_FREEBSD_X64} => passed = address

\* An ARM tracee's register above 2^32 was cut to its low 32 bits.
C17_Witness ==
    /\ op = "readstr" /\ dbg_abi = ABI_ARM
    /\ Val(rs_in).address = <<0, 1, 32768, 4096>>
    /\ Val(rs_out).address = <<0, 0, 32768, 4096>>

\* The shocker sends nothing and requests no kill in this step.
ShockerSilent ==
    /\ kill_signals' = kill_signals
    /\ shocker_kills' = shocker_kills
    /\ wake_toggle' = wake_toggle

\* The spawn attempt failed: _spawn raised, or the tracee ended between fork
\* and execve with one of the spawn-failure statuses.
SpawnAttemptFailed ==
    \/ ~IsNone(spawn_raised)
    \/ /\ child = "dead"
       /\ ~was_initialized
       /\ ~IsNone(child_status)
       /\ Val(child_status) \in SpawnFailSentinels

\* C18, as stated: the watchdog sends no signal before spawned_or_errored is
\* set and none at all when the spawn attempt failed, whichever way it
\* failed (from the moment the tracee has ended with a spawn-failure status
\* the watchdog sends nothing and requests no kill); it requests at most one
\* kill; and it sends no wake signal once it has requested the kill or has
\* seen died.
C18_SilentOnEverySpawnFailure ==
    /\ [](/\ shocker_kills <= 1
          /\ kill_signals <= shocker_kills
          /\ (~spawned_or_errored \/ ~IsNone(spawn_raised))
                => (kill_signals = 0 /\ shocker_kills = 0 /\ wake_toggle = FALSE))
    /\ [][/\ (~spawned_or_errored \/ SpawnAttemptFailed) => ShockerSilent
          /\ (shocker_kills > 0 \/ pc_shocker = "done")
                => wake_toggle' = wake_toggle]_vars

\* C18, amended: the watchdog sends no signal before spawned_or_errored is
\* set and none at all when _spawn raised; it requests at most one kill; and
\* it sends no wake signal once it has requested the kill or has seen died.
\* (A tracee that fails after the fork may be sent signals: the watchdog
\* learns of the failure only through died.)
C18_WatchdogSignalDiscipline ==
    /\ [](/\ shocker_kills <= 1
          /\ kill_signals <= shocker_kills
          /\ (~spawned_or_errored \/ ~IsNone(spawn_raised))
                => (kill_signals = 0 /\ shocker_kills = 0 /\ wake_toggle = FALSE))
    /\ [][/\ (~spawned_or_errored \/ ~IsNone(spawn_raised)) => ShockerSilent
          /\ (shocker_kills > 0 \/ pc_shocker = "done")
                => wake_toggle' = wake_toggle]_vars

\* The watchdog woke the tracee, later killed it, and has left its loop.
C18_Witness ==
    /\ wake_toggle /\ shocker_kills = 1 /\ kill_signals = 1
    /\ killer = "shocker"
    /\ pc_shocker = "done"

\* C19: whenever died is set after a successful spawn, a nonzero time limit
\* that the execution time exceeds means is_tle is true; and is_tle, once
\* true, is never false again.
C19_OverrunMeansTle ==
    /\ []((/\ died /\ IsNone(spawn_raised)
           /\ time_limit # 0 /\ execution_time > time_limit) => is_tle)
    /\ [][is_tle => is_tle']_vars

\* The tracee ran over its limit and exited on its own, the shocker and
\* SIGXCPU not involved: is_tle comes from the check after the monitor.
C19_Witness ==
    /\ died /\ time_limit = 1 /\ execution_time = 2
    /\ killer = "itself" /\ shocker_kills = 0 /\ pc_shocker = "done"
    /\ is_tle

\* The last test case's result has been yielded and every write_async has
\* ended.
JudgeDone ==
    /\ jthread["main"].pc = "yielded" /\ test_case = MaxCases
    /\ \A w \in Writers : jthread[w].pc = "done"

\* C20: whatever the interleaving of the main thread and the write_async
\* thread around the exit of the judged process, no thread stays blocked on
\* write_lock: as long as run() has not returned or write_async has not
\* ended, some step can still be taken.
C20_NoThreadBlocksOnWriteLock == JudgeDone \/ ENABLED NextJudge

\* run() has returned for the current test case: Judge.run is about to hand
\* result.result_flag to test_case_status_packet, or has yielded the result.
RunReturned == jthread["main"].pc \in {"returned", "yielded"}

\* run(): judge_output = fo.read().strip().replace('\r\n', '\n')
judge_output == ReplaceCRLF(Strip(OutputFile))

\* C21: for every test case fed to the same ProgramJudge, the first or a
\* later one, and whenever the judged process exits, once run() has returned
\* result.result_flag is an integer, and its WA bit is set exactly when the
\* process output that run() read differs from the expected output.
C21_WaBitIffOutputDiffers ==
    RunReturned =>
        /\ ~IsNone(result_flag)
        /\ (BitAnd(Val(result_flag), WA) = WA) <=> (Val(process_output) # judge_output)

=============================================================================
